---- MODULE Spec2Model ----
(***************************************************************************)
(* Model of speech-commands/training/browser-fft/prep_wavs.py: the wav to  *)
(* raw-float conversion pipeline (read_as_floats, resampling, frame        *)
(* truncation, convert), the batch directory converter and main.           *)
(*                                                                         *)
(* Representation.                                                         *)
(*  - A path is a sequence of names; a name is a pair <<stem, extension>>  *)
(*    (os.path.splitext of the component), a directory name has the        *)
(*    extension "".  os.path.join(a, b) is Append(a, b).                   *)
(*  - The file system is `dirs` (the set of existing directories) and      *)
(*    `files` (a function from the paths of the existing regular files to  *)
(*    their contents).                                                     *)
(*  - A wav file is a record [rate, nch, dtype, data]: the sampling rate,  *)
(*    the channel count, the sample type and the samples (integers).       *)
(*  - A float sample is a record: [num, den] is the exact value num/den;   *)
(*    [src, n, at] is sample `at` of the FFT resampling of the signal src  *)
(*    to n points, a value the model does not compute.                     *)
(*  - A .dat file is the sequence of its bytes; byte k of the packed       *)
(*    float v is the record [of |-> v, byte |-> k].                        *)
(***************************************************************************)
EXTENDS Integers, Sequences, FiniteSets, TLC

VARIABLES
  files,             \* path -> content of every regular file
  dirs,              \* set of paths of the directories
  scipyEmptyRaises,  \* whether this build's scipy resample raises for 0 points
  pc,                \* position of the program under test
  call,              \* the function called and its arguments
  result,            \* what the call returned or raised
  cw,                \* the frame of convert_wav_files_in_dir: arguments, locals
  log,               \* history: the conversions made, in order
  mn,                \* the frame of main: FLAGS and locals
  gn,                \* the frame of generate_noise_examples
  randintEmptyRaises \* whether this build's randint(0, high <= 0, 0) raises

vars == <<files, dirs, scipyEmptyRaises, pc, call, result, cw, log, mn, gn,
          randintEmptyRaises>>

unitVars == <<pc, call, result>>

mainVars == <<mn, gn, randintEmptyRaises>>

(***************************************************************************)
(* Bounds of the model.                                                    *)
(***************************************************************************)
MaxSamples == 3

MaxFrame == 3

\* Sample values of the generated wav files: the int16 extremes and the
\* value of prep_wavs_test.py.
SampleValues == {-32768, 100, 32767}

\* Sampling rates (Hz) of the inputs and targets.
Rates == {16000, 22050, 44100}

\* The wav file of prep_wavs_test.py: 100 samples of value 100.
TestSamples == [i \in 1..100 |-> 100]

TestFrameSize == 32

(***************************************************************************)
(* Generic helpers.                                                        *)
(***************************************************************************)
SeqsUpTo(S, n) == UNION {[1..k -> S] : k \in 0..n}

\* What a call produces: a return value or a raised exception.
Return(v) == [ok |-> TRUE, err |-> "none", val |-> v]

Raise(e) == [ok |-> FALSE, err |-> e, val |-> <<>>]

\* Python's int(a / b) for a >= 0 and b # 0: true division, then truncation
\* toward zero.
IntTrueDiv(a, b) == IF b > 0 THEN a \div b ELSE -(a \div (-b))

\* L is floor(a / b) for a >= 0 and b > 0, stated without division.
IsFloorOf(L, a, b) == L * b <= a /\ a < (L + 1) * b

IsConstant(x) == \A i \in 1..Len(x) : x[i] = x[1]

\* Names and paths.
D(stem) == <<stem, "">>

join(path, name) == Append(path, name)

basename(path) == path[Len(path)]

Parent(p) == SubSeq(p, 1, Len(p) - 1)

\* Whether path p lies below directory d.
Under(p, d) == Len(p) > Len(d) /\ SubSeq(p, 1, Len(d)) = d

\* An optional argument: <<>> is None, <<v>> is the value v.
None == <<>>

Some(v) == <<v>>

(***************************************************************************)
(* read_as_floats: wavfile.read, the two assertions, astype('float32')     *)
(* and the division by 32768.0.                                            *)
(***************************************************************************)
\* Mutant: the samples divided by the largest int16 value.
ToFloat_By32767(s) == [num |-> s, den |-> 32767]

\* The float32 value s / 32768.0 of an int16 sample s, as the exact fraction
\* num / den (the conversion and the division by a power of two are exact).
ToFloat(s) == [num |-> s, den |-> 32768]

read_as_floats(wav) ==
  IF wav.nch # 1 THEN Raise("AssertionError")
  ELSE IF wav.dtype # "int16" THEN Raise("AssertionError")
  ELSE Return([fs |-> wav.rate,
               signal |-> [i \in 1..Len(wav.data) |-> ToFloat(wav.data[i])]])

\* A wav file that read_as_floats accepts: mono, 16-bit.
ValidWav(wav) == wav.nch = 1 /\ wav.dtype = "int16"

(***************************************************************************)
(* scipy.signal.resample(x, num): num points of the Fourier interpolation  *)
(* of x.  A constant signal stays that constant, num = len(x) returns x;   *)
(* any other sample is kept symbolic.  For zero points (or an empty x)     *)
(* the build either raises or returns an empty signal.                     *)
(***************************************************************************)
resample(x, num, emptyRaises) ==
  IF num = 0 \/ Len(x) = 0
    THEN IF emptyRaises THEN Raise("ValueError: resample") ELSE Return(<<>>)
  ELSE IF num = Len(x) THEN Return(x)
  ELSE IF IsConstant(x) THEN Return([i \in 1..num |-> x[1]])
  ELSE Return([i \in 1..num |-> [src |-> x, n |-> num, at |-> i]])

\* Mutant: the target length rounded up instead of down.
target_num_samples_RoundedUp(num_samples, target_fs, fs) ==
  (num_samples * target_fs + fs - 1) \div fs

target_num_samples(num_samples, target_fs, fs) == (num_samples * target_fs) \div fs

read_and_resample_as_floats(wav, target_fs, emptyRaises) ==
  LET r == read_as_floats(wav) IN
  IF ~r.ok THEN r
  ELSE resample(r.val.signal,
                target_num_samples(Len(r.val.signal), target_fs, r.val.fs),
                emptyRaises)

(***************************************************************************)
(* load_and_normalize_waveform: truncation to whole frames.                *)
(***************************************************************************)
num_frames(len, frame_size) == IntTrueDiv(len, frame_size)

\* Mutant: the last whole frames are kept instead of the first.
Truncate_KeepsTail(signal, frame_size) ==
  SubSeq(signal,
         Len(signal) - frame_size * num_frames(Len(signal), frame_size) + 1,
         Len(signal))

Truncate(signal, frame_size) ==
  SubSeq(signal, 1, frame_size * num_frames(Len(signal), frame_size))

\* Mutant: no check for a signal shorter than one frame.
load_and_normalize_waveform_Unchecked(wav, target_fs, frame_size, emptyRaises) ==
  LET r == read_and_resample_as_floats(wav, target_fs, emptyRaises) IN
  IF ~r.ok THEN r ELSE Return(Truncate(r.val, frame_size))

load_and_normalize_waveform(wav, target_fs, frame_size, emptyRaises) ==
  LET r == read_and_resample_as_floats(wav, target_fs, emptyRaises) IN
  IF ~r.ok THEN r
  ELSE IF num_frames(Len(r.val), frame_size) = 0 THEN Raise("ValueError: 0 samples")
  ELSE Return(Truncate(r.val, frame_size))

(***************************************************************************)
(* convert: load_and_normalize_waveform, then open(out_data_path, 'wb')    *)
(* and struct.pack('f' * n, ...): four bytes per sample.                   *)
(***************************************************************************)
\* Mutant: samples packed as 16-bit values, two bytes each.
Pack_TwoBytes(waveform) ==
  [k \in 1..(2 * Len(waveform)) |->
     [of |-> waveform[((k - 1) \div 2) + 1], byte |-> (k - 1) % 2]]

Pack(waveform) ==
  [k \in 1..(4 * Len(waveform)) |->
     [of |-> waveform[((k - 1) \div 4) + 1], byte |-> (k - 1) % 4]]

WriteFile(fsys, path, content) ==
  [p \in (DOMAIN fsys) \cup {path} |-> IF p = path THEN content ELSE fsys[p]]

RemoveFile(fsys, path) == [p \in (DOMAIN fsys) \ {path} |-> fsys[p]]

\* The outcome of convert on the file system fsys with directories ds:
\* the call's result and the file system it leaves.
convert(fsys, ds, in_wav_path, target_fs, frame_size, out_data_path, emptyRaises) ==
  LET w == load_and_normalize_waveform(fsys[in_wav_path], target_fs, frame_size,
                                       emptyRaises) IN
  IF ~w.ok THEN [res |-> w, files |-> fsys]
  ELSE IF Parent(out_data_path) \notin ds \/ out_data_path \in ds
    THEN [res |-> Raise("IOError"), files |-> fsys]
  ELSE [res |-> Return(Len(w.val)),
        files |-> WriteFile(fsys, out_data_path, Pack(w.val))]

(***************************************************************************)
(* The unit-level specification: one call of one function of the pipeline  *)
(* on a generated wav file, as in prep_wavs_test.py.                       *)
(***************************************************************************)
TmpDir == <<D("tmp")>>

InWav == join(TmpDir, <<"test_in", ".wav">>)

OutDat == join(TmpDir, <<"test_out", ".dat">>)

\* A file that is at out_data_path before the call.
OldDat == Pack(<<ToFloat(0)>>)

WavFiles ==
  {[rate |-> r, nch |-> 1, dtype |-> "int16", data |-> d] :
     r \in Rates, d \in SeqsUpTo(SampleValues, MaxSamples) \cup {TestSamples}}
  \cup {[rate |-> 44100, nch |-> 2, dtype |-> "int16", data |-> <<100, 100>>],
        [rate |-> 44100, nch |-> 1, dtype |-> "uint8", data |-> <<100, 100>>]}

FrameSizes == (1..MaxFrame) \cup {TestFrameSize}

UnitInit ==
  /\ \E wav \in WavFiles, old \in BOOLEAN :
       files = IF old THEN (InWav :> wav) @@ (OutDat :> OldDat) ELSE (InWav :> wav)
  /\ dirs = {TmpDir}
  /\ scipyEmptyRaises \in BOOLEAN
  /\ pc = "start"
  /\ call = [fn |-> "none"]
  /\ result = Return(<<>>)
  /\ cw = [pc |-> "idle"]
  /\ log = <<>>
  /\ mn = [pc |-> "idle"]
  /\ gn = [pc |-> "idle"]
  /\ randintEmptyRaises = FALSE

CallReadAsFloats ==
  /\ pc = "start"
  /\ pc' = "done"
  /\ call' = [fn |-> "read_as_floats", wav_path |-> InWav]
  /\ result' = read_as_floats(files[InWav])
  /\ UNCHANGED <<files, dirs, scipyEmptyRaises, cw, log, mainVars>>

CallReadAndResample ==
  /\ pc = "start"
  /\ \E target_fs \in Rates :
       /\ call' = [fn |-> "read_and_resample_as_floats", wav_path |-> InWav,
                   target_fs |-> target_fs]
       /\ result' = read_and_resample_as_floats(files[InWav], target_fs,
                                                scipyEmptyRaises)
  /\ pc' = "done"
  /\ UNCHANGED <<files, dirs, scipyEmptyRaises, cw, log, mainVars>>

CallLoadAndNormalize ==
  /\ pc = "start"
  /\ \E target_fs \in Rates, frame_size \in FrameSizes :
       /\ call' = [fn |-> "load_and_normalize_waveform", wav_path |-> InWav,
                   target_fs |-> target_fs, frame_size |-> frame_size]
       /\ result' = load_and_normalize_waveform(files[InWav], target_fs, frame_size,
                                                scipyEmptyRaises)
  /\ pc' = "done"
  /\ UNCHANGED <<files, dirs, scipyEmptyRaises, cw, log, mainVars>>

CallConvert ==
  /\ pc = "start"
  /\ \E target_fs \in Rates, frame_size \in FrameSizes :
       LET c == convert(files, dirs, InWav, target_fs, frame_size, OutDat,
                        scipyEmptyRaises) IN
       /\ call' = [fn |-> "convert", wav_path |-> InWav, target_fs |-> target_fs,
                   frame_size |-> frame_size, out_data_path |-> OutDat,
                   before |-> files]
       /\ result' = c.res
       /\ files' = c.files
  /\ pc' = "done"
  /\ UNCHANGED <<dirs, scipyEmptyRaises, cw, log, mainVars>>

UnitNext == CallReadAsFloats \/ CallReadAndResample \/ CallLoadAndNormalize
              \/ CallConvert

SpecUnit == UnitInit /\ [][UnitNext]_vars

(***************************************************************************)
(* convert_wav_files_in_dir.                                               *)
(***************************************************************************)
\* Bounds: the .wav files of one input directory; the decimal strings.
MaxFiles == 3

\* The candidate file names of an input directory, in sorted order.
WavNameOrder == <<"a", "b", "c", "d", "e">>

\* '%d' % k.
IntStr(k) == <<"0", "1", "2", "3", "4", "5", "6", "7", "8", "9">>[k + 1]

Lower(ext) == IF ext = ".WAV" THEN ".wav" ELSE ext

isfile(fsys, p) == p \in DOMAIN fsys

\* os.makedirs(p): p and every missing ancestor.
makedirs(ds, p) == ds \cup {SubSeq(p, 1, k) : k \in 1..Len(p)}

\* sorted(glob.glob(os.path.join(input_dir, '*.wav'))).
glob_wav(fsys, input_dir) ==
  LET present == SelectSeq(WavNameOrder,
                           LAMBDA nm : join(input_dir, <<nm, ".wav">>) \in DOMAIN fsys)
  IN  [k \in 1..Len(present) |-> join(input_dir, <<present[k], ".wav">>)]

\* np.round(a / b) for a >= 0, b > 0: to the nearest integer, ties to even.
np_round(a, b) ==
  LET q == a \div b
      r == a % b
  IN  IF 2 * r < b THEN q
      ELSE IF 2 * r > b THEN q + 1
      ELSE IF q % 2 = 0 THEN q ELSE q + 1

\* Mutant: the bounds 0 and 1 are accepted.
valid_test_split_Inclusive(t) == 0 <= t[1] /\ t[1] <= t[2]

\* Lines 198 and 274: 0.0 < test_split < 1.0, for the fraction t[1] / t[2].
valid_test_split(t) == 0 < t[1] /\ t[1] < t[2]

\* Mutant: the train size truncated instead of rounded.
num_train_Truncated(t, n) == ((t[2] - t[1]) * n) \div t[2]

\* int(np.round((1.0 - test_split) * len(in_wav_paths))).
num_train(t, n) == np_round((t[2] - t[1]) * n, t[2])

\* [in_wav_paths[i] for i in indices[:num_train]].
split_train(in_wav_paths, indices, k) == [j \in 1..k |-> in_wav_paths[indices[j]]]

\* Mutant: the test files taken from the head of the shuffled indices.
split_test_FromHead(in_wav_paths, indices, k) ==
  [j \in 1..(Len(in_wav_paths) - k) |-> in_wav_paths[indices[j]]]

\* [in_wav_paths[i] for i in indices[num_train:]].
split_test(in_wav_paths, indices, k) ==
  [j \in 1..(Len(in_wav_paths) - k) |-> in_wav_paths[indices[k + j]]]

\* The outcomes of np.random.shuffle(np.arange(n)), as 1-based index lists.
Shuffles(n) == {[j \in 1..n |-> f[j]] : f \in Permutations(1..n)}

\* Mutant: an input directory without .wav files is accepted.
no_wav_files_Accepted(in_wav_paths) == FALSE

\* Line 206: not in_wav_paths.
no_wav_files(in_wav_paths) == in_wav_paths = <<>>

\* Lines 189-207: the checks and the directories made before the loop.
\* The result carries the directories as the checks leave them.
cw_checks(fsys, ds, a) ==
  IF isfile(fsys, a.output_dir)
    THEN [res |-> Raise("ValueError: output_data_path must also be a directory"),
          dirs |-> ds]
  ELSE
    LET d1 == IF a.output_dir \notin ds THEN makedirs(ds, a.output_dir) ELSE ds IN
    IF a.test_split # None /\ ~valid_test_split(a.test_split[1])
      THEN [res |-> Raise("AssertionError"), dirs |-> d1]
    ELSE IF a.test_split # None /\ a.test_output_dir = None
      THEN [res |-> Raise("ValueError: test_output_dir must be specified"),
            dirs |-> d1]
    ELSE
      LET d2 == IF a.test_split # None /\ a.test_output_dir[1] \notin d1
                  THEN makedirs(d1, a.test_output_dir[1]) ELSE d1 IN
      IF no_wav_files(glob_wav(fsys, a.input_dir))
        THEN [res |-> Raise("ValueError: Cannot find any .wav files"), dirs |-> d2]
      ELSE [res |-> Return(glob_wav(fsys, a.input_dir)), dirs |-> d2]

\* The frame of a call: the arguments a, at the function's entry.
cw_frame(a) ==
  [pc |-> "entry", args |-> a, in_wav_paths |-> <<>>,
   train_wav_paths |-> <<>>, test_wav_paths |-> <<>>,
   n |-> 0, i |-> 0, num_train_examples |-> 0, num_test_examples |-> 0,
   res |-> Return(<<>>)]

\* Lines 189-220: checks, glob and the train/test split.
cw_Entry ==
  /\ cw.pc = "entry"
  /\ LET a == cw.args
         c == cw_checks(files, dirs, a)
     IN  /\ dirs' = c.dirs
         /\ IF ~c.res.ok
              THEN cw' = [cw EXCEPT !.pc = "raised", !.res = c.res]
            ELSE IF a.test_split = None
              THEN cw' = [cw EXCEPT !.pc = "loop", !.in_wav_paths = c.res.val,
                                    !.train_wav_paths = c.res.val,
                                    !.test_wav_paths = <<>>]
            ELSE \E indices \in Shuffles(Len(c.res.val)) :
                   LET k == num_train(a.test_split[1], Len(c.res.val)) IN
                   cw' = [cw EXCEPT
                            !.pc = "loop", !.in_wav_paths = c.res.val,
                            !.train_wav_paths = split_train(c.res.val, indices, k),
                            !.test_wav_paths = split_test(c.res.val, indices, k)]
  /\ UNCHANGED <<files, scipyEmptyRaises, unitVars, log, mainVars>>

split_in_path(f) == IF f.n = 0 THEN f.train_wav_paths ELSE f.test_wav_paths

split_out_path(f) == IF f.n = 0 THEN f.args.output_dir ELSE f.args.test_output_dir[1]

\* Mutant: every file goes to subfolder 0.
subfolder_of_Flat(out_path, i, recordings_per_subfolder) ==
  join(out_path, D(IntStr(0)))

\* Lines 232-234: the numbered subfolder of the i-th file (0-based) of a split.
subfolder_of(out_path, i, recordings_per_subfolder) ==
  join(out_path, D(IntStr(i \div recordings_per_subfolder)))

\* Mutant: every output file gets the same name.
output_basename_Fixed(in_path) == <<"out", ".dat">>

\* Mutant: the extension .dat is not appended.
output_basename_NoExt(in_path) == <<basename(in_path)[1], "">>

\* Lines 237-240: the output file name of an input file.
output_basename(in_path) ==
  LET nm == basename(in_path) IN
  IF Lower(nm[2]) = ".wav" THEN <<nm[1], ".dat">> ELSE <<nm[1], "">>

\* Mutant: only files longer than match_len are skipped.
length_mismatch_OnlyLonger(match_len, converted_len) ==
  match_len # None /\ match_len[1] < converted_len

\* Line 244: whether the converted file is to be skipped.
length_mismatch(match_len, converted_len) ==
  match_len # None /\ match_len[1] # converted_len

\* Mutant: the skipped output is left in place.
remove_skipped_Kept(fsys, out_path) == fsys

\* Line 247: the skipped output is removed.
remove_skipped(fsys, out_path) == RemoveFile(fsys, out_path)

\* Lines 248-251: the example counters after one more file of split n.
count_example(f) ==
  IF f.n = 0
    THEN [f EXCEPT !.num_train_examples = @ + 1, !.i = @ + 1]
    ELSE [f EXCEPT !.num_test_examples = @ + 1, !.i = @ + 1]

\* Mutant: a file whose conversion raises is passed over and the loop goes on.
conversion_raised_PassedOver(f, res) == [f EXCEPT !.i = @ + 1]

\* Lines 242-243: an exception of convert is not caught; it ends the call.
conversion_raised(f, res) == [f EXCEPT !.pc = "raised", !.res = res]

\* Lines 231-251: one iteration of the inner loop.
cw_ConvertOne ==
  /\ cw.pc = "loop"
  /\ cw.i < Len(split_in_path(cw))
  /\ LET a == cw.args
         in_path == split_in_path(cw)[cw.i + 1]
         subfolder == subfolder_of(split_out_path(cw), cw.i,
                                   a.recordings_per_subfolder)
         d1 == IF subfolder \notin dirs /\ ~isfile(files, subfolder)
                 THEN makedirs(dirs, subfolder) ELSE dirs
         out_path == join(subfolder, output_basename(in_path))
         c == convert(files, d1, in_path, a.target_fs, a.frame_size, out_path,
                      scipyEmptyRaises)
     IN  /\ dirs' = d1
         /\ IF ~c.res.ok
              THEN /\ files' = c.files
                   /\ cw' = conversion_raised(cw, c.res)
                   /\ log' = Append(log, [n |-> cw.n, in_path |-> in_path,
                                          out_path |-> out_path, ok |-> FALSE,
                                          len |-> 0, skipped |-> FALSE])
              ELSE /\ files' = IF length_mismatch(a.match_len, c.res.val)
                                 THEN remove_skipped(c.files, out_path)
                                 ELSE c.files
                   /\ cw' = count_example(cw)
                   /\ log' = Append(log, [n |-> cw.n, in_path |-> in_path,
                                          out_path |-> out_path, ok |-> TRUE,
                                          len |-> c.res.val,
                                          skipped |-> length_mismatch(a.match_len,
                                                                      c.res.val)])
  /\ UNCHANGED <<scipyEmptyRaises, unitVars, mainVars>>

\* Lines 221-229: the train split is done, the test split follows.
cw_NextSplit ==
  /\ cw.pc = "loop"
  /\ cw.i = Len(split_in_path(cw))
  /\ cw.n = 0
  /\ cw.args.test_split # None
  /\ cw' = [cw EXCEPT !.n = 1, !.i = 0]
  /\ UNCHANGED <<files, dirs, scipyEmptyRaises, unitVars, log, mainVars>>

\* Lines 226-227 and 253: both splits are done.
cw_Return ==
  /\ cw.pc = "loop"
  /\ cw.i = Len(split_in_path(cw))
  /\ cw.n = 1 \/ cw.args.test_split = None
  /\ cw' = [cw EXCEPT !.pc = "returned",
                      !.res = Return(<<cw.num_train_examples,
                                       cw.num_test_examples>>)]
  /\ UNCHANGED <<files, dirs, scipyEmptyRaises, unitVars, log, mainVars>>

cw_Next == cw_Entry \/ cw_ConvertOne \/ cw_NextSplit \/ cw_Return

(***************************************************************************)
(* The specification of one call of convert_wav_files_in_dir, as main      *)
(* makes it for one word: the input directory holds some .wav files, the   *)
(* train and test base directories exist and the word's output             *)
(* directories do not.                                                     *)
(***************************************************************************)
DirTargetFs == 44100

DirFrameSize == 2

DirMatchLen == 4

\* The input wav files: 2 samples at 22050 Hz convert to 4 samples, 3 at
\* 44100 Hz to 2, 1 at 44100 Hz is shorter than a frame, and a stereo file.
DirWavPool ==
  {[rate |-> 22050, nch |-> 1, dtype |-> "int16", data |-> <<100, 100>>],
   [rate |-> 44100, nch |-> 1, dtype |-> "int16", data |-> <<100, -32768, 100>>],
   [rate |-> 44100, nch |-> 1, dtype |-> "int16", data |-> <<100>>],
   [rate |-> 44100, nch |-> 2, dtype |-> "int16", data |-> <<100, 100>>]}

TestSplits == {<<15, 100>>, <<1, 2>>, <<3, 4>>}

\* Values of test_split outside (0, 1): 0, 1, 1.5 and -0.5.
BadTestSplits == {<<0, 1>>, <<1, 1>>, <<3, 2>>, <<-1, 2>>}

InDir == <<D("in"), D("yes")>>

TrainDir == <<D("out"), D("train"), D("yes")>>

TestDir == <<D("out"), D("test"), D("yes")>>

\* The contents of directory dir with up to n .wav files drawn from pool.
FilesIn(dir, n, pool) ==
  LET names == {WavNameOrder[k] : k \in 1..n} IN
  UNION {[{join(dir, <<nm, ".wav">>) : nm \in present} -> pool] :
           present \in SUBSET names}

\* The file systems with up to MaxFiles .wav files in dir.
WavDirs(dir) == FilesIn(dir, MaxFiles, DirWavPool)

\* The calls main makes (test_output_dir given, test_split in (0, 1)) and
\* the other calls the signature allows: no test_output_dir, a test_split
\* outside (0, 1).
DirArgs ==
  {[input_dir |-> InDir, output_dir |-> TrainDir,
    recordings_per_subfolder |-> rps, target_fs |-> DirTargetFs,
    frame_size |-> DirFrameSize, match_len |-> ml, test_split |-> ts,
    test_output_dir |-> tod] :
     rps \in 1..2, ml \in {None, Some(DirMatchLen)},
     ts \in {None} \cup {Some(t) : t \in TestSplits},
     tod \in {Some(TestDir)}}
  \cup
  {[input_dir |-> InDir, output_dir |-> TrainDir,
    recordings_per_subfolder |-> 1, target_fs |-> DirTargetFs,
    frame_size |-> DirFrameSize, match_len |-> Some(DirMatchLen),
    test_split |-> ts, test_output_dir |-> tod] :
     ts \in {None, Some(<<1, 2>>)} \cup {Some(t) : t \in BadTestSplits},
     tod \in {None, Some(TestDir)}}

DirInit ==
  /\ files \in WavDirs(InDir)
  /\ dirs = {<<D("in")>>, InDir, <<D("out")>>, Parent(TrainDir), Parent(TestDir)}
  /\ scipyEmptyRaises \in BOOLEAN
  /\ pc = "none"
  /\ call = [fn |-> "none"]
  /\ result = Return(<<>>)
  /\ \E a \in DirArgs : cw = cw_frame(a)
  /\ log = <<>>
  /\ mn = [pc |-> "idle"]
  /\ gn = [pc |-> "idle"]
  /\ randintEmptyRaises = FALSE

SpecDir == DirInit /\ [][cw_Next]_vars

(***************************************************************************)
(* The specification of one call of convert_wav_files_in_dir whose         *)
(* directories may coincide: the output directory is the input directory   *)
(* or another one, the test output directory is the output directory or    *)
(* another one.                                                            *)
(***************************************************************************)
AliasArgs ==
  {[input_dir |-> InDir, output_dir |-> od[1],
    recordings_per_subfolder |-> rps, target_fs |-> DirTargetFs,
    frame_size |-> DirFrameSize, match_len |-> Some(DirMatchLen),
    test_split |-> ts, test_output_dir |-> Some(od[2])] :
     od \in {<<InDir, InDir>>, <<TrainDir, TrainDir>>, <<InDir, TestDir>>,
             <<TrainDir, TestDir>>},
     rps \in 1..2, ts \in {None, Some(<<1, 2>>)}}

AliasInit ==
  /\ files \in WavDirs(InDir)
  /\ dirs = {<<D("in")>>, InDir, <<D("out")>>, Parent(TrainDir), Parent(TestDir)}
  /\ scipyEmptyRaises \in BOOLEAN
  /\ pc = "none"
  /\ call = [fn |-> "none"]
  /\ result = Return(<<>>)
  /\ \E a \in AliasArgs : cw = cw_frame(a)
  /\ log = <<>>
  /\ mn = [pc |-> "idle"]
  /\ gn = [pc |-> "idle"]
  /\ randintEmptyRaises = FALSE

SpecAlias == AliasInit /\ [][cw_Next]_vars

(***************************************************************************)
(* generate_noise_examples.                                                *)
(***************************************************************************)
\* '%.5d' % k.
Pad5(k) ==
  <<"00000", "00001", "00002", "00003", "00004", "00005", "00006", "00007",
    "00008", "00009">>[k + 1]

\* int(np.ceil(sample_length / (target_fs / fs))).
sample_length_0(sample_length, target_fs, fs) ==
  (sample_length * fs + target_fs - 1) \div target_fs

\* np.random.randint(0, high, num): the possible draws, or the error for an
\* empty range.  With num = 0 some builds return an empty array instead.
randint(high, num, emptyRaises) ==
  IF high <= 0
    THEN IF num = 0 /\ ~emptyRaises THEN {Return(<<>>)}
         ELSE {Raise("ValueError: low >= high")}
  ELSE {Return(b) : b \in [1..num -> 0..(high - 1)]}

gn_frame(a) ==
  [pc |-> "entry", args |-> a, signal |-> <<>>, sample_length_0 |-> 0,
   begin_indices |-> <<>>, i |-> 0, res |-> Return(<<>>)]

\* Lines 93-98: the recording is read and the start offsets are drawn.
gn_Entry ==
  /\ gn.pc = "entry"
  /\ LET a == gn.args
         r == read_as_floats(files[a.noise_wav_path])
     IN  IF ~r.ok
           THEN gn' = [gn EXCEPT !.pc = "raised", !.res = r]
         ELSE
           LET sl0 == sample_length_0(a.sample_length, a.target_fs, r.val.fs)
               max_begin_index == Len(r.val.signal) - sl0
           IN  \E draw \in randint(max_begin_index, a.num_noise_examples,
                                   randintEmptyRaises) :
                 IF ~draw.ok
                   THEN gn' = [gn EXCEPT !.pc = "raised", !.res = draw]
                 ELSE gn' = [gn EXCEPT !.pc = "loop", !.signal = r.val.signal,
                                       !.sample_length_0 = sl0,
                                       !.begin_indices = draw.val]
  /\ UNCHANGED <<files, dirs, scipyEmptyRaises, unitVars, cw, log, mn,
                 randintEmptyRaises>>

\* Mutant: every example is written under the same file name.
noise_out_data_path_Fixed(subfolder, index) == join(subfolder, <<Pad5(0), ".dat">>)

\* Lines 107: the output file of example i.
noise_out_data_path(subfolder, index) == join(subfolder, <<Pad5(index), ".dat">>)

\* Lines 99-112: one example is cut out, resampled and written.
gn_WriteOne ==
  /\ gn.pc = "loop"
  /\ gn.i < Len(gn.begin_indices)
  /\ LET a == gn.args
         begin_index == gn.begin_indices[gn.i + 1]
         subfolder == subfolder_of(a.noise_out_dir, gn.i + a.file_begin_index,
                                   a.recordings_per_subfolder)
         d1 == IF subfolder \notin dirs THEN makedirs(dirs, subfolder) ELSE dirs
         out_data_path == noise_out_data_path(subfolder, gn.i + a.file_begin_index)
         waveform == SubSeq(gn.signal, begin_index + 1,
                            begin_index + gn.sample_length_0)
         resampled_waveform == resample(waveform, a.sample_length,
                                        scipyEmptyRaises)
     IN  /\ dirs' = d1
         /\ IF ~resampled_waveform.ok
              THEN /\ gn' = [gn EXCEPT !.pc = "raised", !.res = resampled_waveform]
                   /\ UNCHANGED <<files, log>>
              ELSE /\ files' = WriteFile(files, out_data_path,
                                         Pack(resampled_waveform.val))
                   /\ gn' = [gn EXCEPT !.i = @ + 1]
                   /\ log' = Append(log, [n |-> 2, in_path |-> a.noise_wav_path,
                                          out_path |-> out_data_path, ok |-> TRUE,
                                          len |-> Len(resampled_waveform.val),
                                          skipped |-> FALSE])
  /\ UNCHANGED <<scipyEmptyRaises, unitVars, cw, mn, randintEmptyRaises>>

\* The loop of lines 99-112 is over.
gn_Return ==
  /\ gn.pc = "loop"
  /\ gn.i = Len(gn.begin_indices)
  /\ gn' = [gn EXCEPT !.pc = "returned", !.res = Return(<<>>)]
  /\ UNCHANGED <<files, dirs, scipyEmptyRaises, unitVars, cw, log, mn,
                 randintEmptyRaises>>

gn_Next == gn_Entry \/ gn_WriteOne \/ gn_Return

(***************************************************************************)
(* The specification of one call of generate_noise_examples, as main makes *)
(* it for one recording: the output directory of the split exists and is   *)
(* empty.  The samples of the recording are 1, 2, 3, ... so that windows   *)
(* at different offsets differ.                                            *)
(***************************************************************************)
\* Bounds: the samples of the noise recording, the examples asked for.
MaxNoiseLen == 7

MaxExamples == 2

NoiseIn == <<D("in"), D("_background_noise_"), <<"a", ".wav">>>>

NoiseOutDir == <<D("out"), D("train"), D("_background_noise_")>>

\* target_fs and sample_length of the calls: up- and downsampling, windows
\* of 1 to 6 samples before resampling.
NoiseTargetRates == {16000, 44100}

NoiseSampleLengths == {1, 2}

NoiseArgs ==
  {[noise_wav_path |-> NoiseIn, num_noise_examples |-> num,
    recordings_per_subfolder |-> rf[1], target_fs |-> target_fs,
    sample_length |-> sample_length, noise_out_dir |-> NoiseOutDir,
    file_begin_index |-> rf[2]] :
     num \in 0..MaxExamples, rf \in {<<1, 0>>, <<2, 0>>, <<2, 1>>},
     target_fs \in NoiseTargetRates, sample_length \in NoiseSampleLengths}

NoiseInit ==
  /\ \E rate \in Rates, len \in 0..MaxNoiseLen :
       files = (NoiseIn :> [rate |-> rate, nch |-> 1, dtype |-> "int16",
                            data |-> [i \in 1..len |-> i]])
  /\ dirs = {<<D("in")>>, Parent(NoiseIn), <<D("out")>>, Parent(NoiseOutDir),
             NoiseOutDir}
  /\ scipyEmptyRaises = FALSE
  /\ randintEmptyRaises \in BOOLEAN
  /\ pc = "none"
  /\ call = [fn |-> "none"]
  /\ result = Return(<<>>)
  /\ cw = [pc |-> "idle"]
  /\ log = <<>>
  /\ mn = [pc |-> "idle"]
  /\ \E a \in NoiseArgs : gn = gn_frame(a)

SpecNoise == NoiseInit /\ [][gn_Next]_vars

(***************************************************************************)
(* main.  FLAGS.words is None or the list of the comma-separated items,    *)
(* each a triple <<leading blanks, text, trailing blanks>>.                *)
(***************************************************************************)
BACKGROUND_NOISE_DIR == D("_background_noise_")

\* word.strip().
strip(item) == item[2]

\* [word.strip() for word in FLAGS.words.strip().split(',')].
parse_words(items) == [k \in 1..Len(items) |-> strip(items[k])]

\* Mutant: no list of words is rejected for its duplicates.
has_duplicates_Never(words) == FALSE

\* len(set(words)) != len(words).
has_duplicates(words) == Cardinality({words[k] : k \in 1..Len(words)}) # Len(words)

\* Mutant: only the directory of the first word is looked for.
missing_word_dir_FirstOnly(ds, input_wav_path, words) ==
  join(input_wav_path, D(words[1])) \notin ds

\* Lines 269-272: some word has no directory under input_wav_path.
missing_word_dir(ds, input_wav_path, words) ==
  \E k \in 1..Len(words) : join(input_wav_path, D(words[k])) \notin ds

\* Mutant: existing train/ and test/ directories are not looked for.
output_exists_Never(ds, train_base, test_base) == FALSE

\* Mutant: the run is refused only when both train/ and test/ exist.
output_exists_Both(ds, train_base, test_base) ==
  train_base \in ds /\ test_base \in ds

\* Line 283: os.path.isdir(train_base) or os.path.isdir(test_base).
output_exists(ds, train_base, test_base) ==
  train_base \in ds \/ test_base \in ds

\* Lines 257-286, for input_wav_path a directory: the checks of the words
\* and of the output directories, with the directories they leave.
main_checks(ds, F) ==
  IF F.words = None THEN [res |-> Raise("ValueError: missing words argument."),
                          dirs |-> ds]
  ELSE
    LET words == parse_words(F.words[1])
        train_base == join(F.output_data_path, D("train"))
        test_base == join(F.output_data_path, D("test"))
    IN
    IF has_duplicates(words)
      THEN [res |-> Raise("ValueError: Found duplicate items in words"), dirs |-> ds]
    ELSE IF missing_word_dir(ds, F.input_wav_path, words)
      THEN [res |-> Raise("ValueError: Missing word directory"), dirs |-> ds]
    ELSE IF ~valid_test_split(F.test_split)
      THEN [res |-> Raise("AssertionError"), dirs |-> ds]
    ELSE
      LET d1 == IF F.output_data_path \notin ds
                  THEN makedirs(ds, F.output_data_path) ELSE ds IN
      IF output_exists(d1, train_base, test_base)
        THEN [res |-> Raise("ValueError: train or test subdirectory already exists."),
              dirs |-> d1]
      ELSE [res |-> Return(words),
            dirs |-> makedirs(makedirs(d1, train_base), test_base)]

\* The frame of main at its start; dirs0 records the directories that
\* exist then.
mn_frame(F, ds) ==
  [pc |-> "start", FLAGS |-> F, dirs0 |-> ds, words |-> <<>>, k |-> 0,
   nums_bound |-> FALSE, nums_train_examples |-> <<>>, nums_test_examples |-> <<>>,
   num_train_noise_examples |-> 0, num_test_noise_examples |-> 0,
   raw_noise_wav_paths |-> <<>>, split |-> 0, r |-> 0, num_examples |-> 0,
   begin_file_index |-> 0, res |-> Return(<<>>)]

\* Lines 257-286: the branch on input_wav_path and the checks.
main_Start ==
  /\ mn.pc = "start"
  /\ IF mn.FLAGS.input_wav_path \notin dirs
       THEN /\ mn' = [mn EXCEPT !.pc = "after_words"]
            /\ UNCHANGED dirs
       ELSE LET c == main_checks(dirs, mn.FLAGS) IN
            /\ dirs' = c.dirs
            /\ mn' = IF c.res.ok
                       THEN [mn EXCEPT !.pc = "words", !.words = c.res.val,
                                       !.nums_bound = TRUE]
                       ELSE [mn EXCEPT !.pc = "raised", !.res = c.res,
                                       !.nums_bound = TRUE]
  /\ UNCHANGED <<files, scipyEmptyRaises, unitVars, cw, log, gn,
                 randintEmptyRaises>>

\* Lines 288-296: convert_wav_files_in_dir is called for the next word.
main_CallWord ==
  /\ mn.pc = "words"
  /\ mn.k < Len(mn.words)
  /\ LET F == mn.FLAGS
         word == mn.words[mn.k + 1]
     IN  cw' = cw_frame([input_dir |-> join(F.input_wav_path, D(word)),
                         output_dir |-> join(join(F.output_data_path, D("train")),
                                             D(word)),
                         recordings_per_subfolder |-> F.recordings_per_subfolder,
                         target_fs |-> F.target_fs,
                         frame_size |-> F.frame_size,
                         match_len |-> Some(F.match_len),
                         test_split |-> Some(F.test_split),
                         test_output_dir |->
                           Some(join(join(F.output_data_path, D("test")),
                                     D(word)))])
  /\ mn' = [mn EXCEPT !.pc = "in_word"]
  /\ UNCHANGED <<files, dirs, scipyEmptyRaises, unitVars, log, gn,
                 randintEmptyRaises>>

\* Lines 292-298: the call returned (the counts are appended) or raised.
main_AfterWord ==
  /\ mn.pc = "in_word"
  /\ cw.pc \in {"returned", "raised"}
  /\ mn' = IF cw.res.ok
             THEN [mn EXCEPT !.pc = "words", !.k = @ + 1,
                             !.nums_train_examples = Append(@, cw.res.val[1]),
                             !.nums_test_examples = Append(@, cw.res.val[2])]
             ELSE [mn EXCEPT !.pc = "raised", !.res = cw.res]
  /\ cw' = [pc |-> "idle"]
  /\ UNCHANGED <<files, dirs, scipyEmptyRaises, unitVars, log, gn,
                 randintEmptyRaises>>

\* The loop over the words is over.
main_WordsDone ==
  /\ mn.pc = "words"
  /\ mn.k = Len(mn.words)
  /\ mn' = [mn EXCEPT !.pc = "after_words"]
  /\ UNCHANGED <<files, dirs, scipyEmptyRaises, unitVars, cw, log, gn,
                 randintEmptyRaises>>

Sum(seq) ==
  LET RECURSIVE S(_)
      S(k) == IF k = 0 THEN 0 ELSE seq[k] + S(k - 1)
  IN  S(Len(seq))

\* int(np.round(np.mean(nums))).
round_mean(nums) == np_round(Sum(nums), Len(nums))

\* Lines 300-307 and 325-326: the branch on include_noise.
main_IncludeNoise ==
  /\ mn.pc = "after_words"
  /\ LET F == mn.FLAGS IN
     mn' = IF ~F.include_noise
             THEN [mn EXCEPT !.pc = "raised",
                             !.res = Raise("ValueError: input_wav_path must be a directory.")]
           ELSE IF ~mn.nums_bound
             THEN [mn EXCEPT !.pc = "raised", !.res = Raise("UnboundLocalError")]
           ELSE [mn EXCEPT
                   !.pc = "noise_split",
                   !.num_train_noise_examples = round_mean(mn.nums_train_examples),
                   !.num_test_noise_examples = round_mean(mn.nums_test_examples),
                   !.raw_noise_wav_paths =
                      glob_wav(files, join(F.input_wav_path, BACKGROUND_NOISE_DIR)),
                   !.split = 0]
  /\ UNCHANGED <<files, dirs, scipyEmptyRaises, unitVars, cw, log, gn,
                 randintEmptyRaises>>

\* 'train' or 'test'.
split_name(k) == IF k = 0 THEN D("train") ELSE D("test")

\* Mutant: the examples per recording rounded up.
examples_per_recording_RoundedUp(total, k) == (total + k - 1) \div k

\* Line 313: num_examples //= len(raw_noise_wav_paths).
examples_per_recording(total, k) == total \div k

\* Lines 308-314: the examples per recording of one split.
main_NoiseSplit ==
  /\ mn.pc = "noise_split"
  /\ LET total == IF mn.split = 0 THEN mn.num_train_noise_examples
                  ELSE mn.num_test_noise_examples
     IN  mn' = IF Len(mn.raw_noise_wav_paths) = 0
                 THEN [mn EXCEPT !.pc = "raised", !.res = Raise("ZeroDivisionError")]
               ELSE [mn EXCEPT !.pc = "noise_rec",
                               !.num_examples =
                                  examples_per_recording(total,
                                                         Len(mn.raw_noise_wav_paths)),
                               !.begin_file_index = 0, !.r = 0]
  /\ UNCHANGED <<files, dirs, scipyEmptyRaises, unitVars, cw, log, gn,
                 randintEmptyRaises>>

\* Lines 315-323: generate_noise_examples is called for the next recording.
main_CallNoise ==
  /\ mn.pc = "noise_rec"
  /\ mn.r < Len(mn.raw_noise_wav_paths)
  /\ LET F == mn.FLAGS
         out_dir == join(join(F.output_data_path, split_name(mn.split)),
                         BACKGROUND_NOISE_DIR)
     IN  /\ dirs' = IF out_dir \notin dirs THEN makedirs(dirs, out_dir) ELSE dirs
         /\ gn' = gn_frame([noise_wav_path |-> mn.raw_noise_wav_paths[mn.r + 1],
                            num_noise_examples |-> mn.num_examples,
                            recordings_per_subfolder |-> F.recordings_per_subfolder,
                            target_fs |-> F.target_fs,
                            sample_length |-> F.match_len,
                            noise_out_dir |-> out_dir,
                            file_begin_index |-> mn.begin_file_index])
  /\ mn' = [mn EXCEPT !.pc = "in_noise"]
  /\ UNCHANGED <<files, scipyEmptyRaises, unitVars, cw, log, randintEmptyRaises>>

\* Mutant: the file index does not advance from one recording to the next.
next_begin_file_index_Same(begin_file_index, num_examples) == begin_file_index

\* Line 324: begin_file_index += num_examples.
next_begin_file_index(begin_file_index, num_examples) ==
  begin_file_index + num_examples

\* Lines 320-324: the call returned (the file index advances) or raised.
main_AfterNoise ==
  /\ mn.pc = "in_noise"
  /\ gn.pc \in {"returned", "raised"}
  /\ mn' = IF gn.res.ok
             THEN [mn EXCEPT !.pc = "noise_rec", !.r = @ + 1,
                             !.begin_file_index =
                                next_begin_file_index(@, mn.num_examples)]
             ELSE [mn EXCEPT !.pc = "raised", !.res = gn.res]
  /\ gn' = [pc |-> "idle"]
  /\ UNCHANGED <<files, dirs, scipyEmptyRaises, unitVars, cw, log,
                 randintEmptyRaises>>

\* Line 308: the recordings of the train split are done, test follows.
main_NextNoiseSplit ==
  /\ mn.pc = "noise_rec"
  /\ mn.r = Len(mn.raw_noise_wav_paths)
  /\ mn.split = 0
  /\ mn' = [mn EXCEPT !.pc = "noise_split", !.split = 1]
  /\ UNCHANGED <<files, dirs, scipyEmptyRaises, unitVars, cw, log, gn,
                 randintEmptyRaises>>

\* main is over without an error.
main_Return ==
  /\ mn.pc = "noise_rec"
  /\ mn.r = Len(mn.raw_noise_wav_paths)
  /\ mn.split = 1
  /\ mn' = [mn EXCEPT !.pc = "returned"]
  /\ UNCHANGED <<files, dirs, scipyEmptyRaises, unitVars, cw, log, gn,
                 randintEmptyRaises>>

main_Next ==
  \/ main_Start \/ main_CallWord \/ main_AfterWord \/ main_WordsDone
  \/ main_IncludeNoise \/ main_NoiseSplit \/ main_CallNoise \/ main_AfterNoise
  \/ main_NextNoiseSplit \/ main_Return
  \/ cw_Next \/ gn_Next

(***************************************************************************)
(* The specification of a run of main.  The initial states are three       *)
(* families of command lines and file systems: runs that differ in the     *)
(* word recordings, runs that differ in the noise recordings, and runs     *)
(* that differ in what the checks of main look at.                         *)
(***************************************************************************)
MaxWordFiles == 2

MaxNoiseFiles == 2

InputWavPath == <<D("in")>>

OutputDataPath == <<D("out")>>

WordDir(word) == join(InputWavPath, D(word))

NoiseDir == join(InputWavPath, BACKGROUND_NOISE_DIR)

\* A word recording that converts to match_len samples.
MatchWav == [rate |-> 22050, nch |-> 1, dtype |-> "int16", data |-> <<100, 100>>]

\* The word recordings: of match_len samples, of another length, too short.
MainWavPool ==
  {MatchWav,
   [rate |-> 44100, nch |-> 1, dtype |-> "int16", data |-> <<100, -32768, 100>>],
   [rate |-> 44100, nch |-> 1, dtype |-> "int16", data |-> <<100>>]}

\* The noise recordings: 6 samples, and exactly match_len samples.
NoiseWavPool ==
  {[rate |-> 44100, nch |-> 1, dtype |-> "int16",
    data |-> <<100, 100, 100, 100, 100, 100>>],
   [rate |-> 44100, nch |-> 1, dtype |-> "int16", data |-> <<100, 100, 100, 100>>]}

LongNoise ==
  [rate |-> 44100, nch |-> 1, dtype |-> "int16",
   data |-> <<100, 100, 100, 100, 100, 100>>]

Flags(words, include_noise, test_split, rps) ==
  [input_wav_path |-> InputWavPath, output_data_path |-> OutputDataPath,
   words |-> words, include_noise |-> include_noise, test_split |-> test_split,
   target_fs |-> DirTargetFs, frame_size |-> DirFrameSize,
   recordings_per_subfolder |-> rps, match_len |-> DirMatchLen]

Item(text) == <<"", text, "">>

\* Runs that differ in the word recordings; one noise recording.
WordScenarios ==
  {[files |-> fy @@ fn @@ (join(NoiseDir, <<"a", ".wav">>) :> LongNoise),
    dirs |-> {InputWavPath, WordDir("yes"), NoiseDir}
               \cup (IF two THEN {WordDir("no")} ELSE {}),
    FLAGS |-> Flags(Some(IF two THEN <<Item("yes"), Item("no")>>
                         ELSE <<Item("yes")>>),
                    noise, <<1, 2>>, 1)] :
     fy \in FilesIn(WordDir("yes"), MaxWordFiles, MainWavPool),
     fn \in FilesIn(WordDir("no"), MaxWordFiles - 1, MainWavPool),
     two \in BOOLEAN, noise \in BOOLEAN}

\* Runs that differ in the noise recordings and the numbers of examples.
NoiseScenarios ==
  {[files |-> fy @@ (join(WordDir("no"), <<"a", ".wav">>) :> MatchWav) @@ fz,
    dirs |-> {InputWavPath, WordDir("yes"), WordDir("no")}
               \cup (IF nd THEN {NoiseDir} ELSE {}),
    FLAGS |-> Flags(Some(<<Item("yes"), Item("no")>>), TRUE, <<1, 2>>, rps)] :
     fy \in {f \in FilesIn(WordDir("yes"), MaxWordFiles, {MatchWav}) :
               DOMAIN f # {}},
     fz \in FilesIn(NoiseDir, MaxNoiseFiles, NoiseWavPool),
     nd \in BOOLEAN, rps \in 1..2}

WordsFlags ==
  {None, Some(<<Item("yes")>>), Some(<<Item("yes"), Item("no")>>),
   Some(<<Item("yes"), <<" ", "no", " ">>>>),
   Some(<<Item("yes"), Item("yes")>>),
   Some(<<Item("yes"), <<" ", "yes", "">>>>)}

\* What is below output_data_path before the run.
OutputStates ==
  {{}, {OutputDataPath}, {OutputDataPath, join(OutputDataPath, D("train"))},
   {OutputDataPath, join(OutputDataPath, D("test"))}}

\* The files of an earlier run, in train/ and in test/ when they exist.
OldOutputs ==
  {join(join(OutputDataPath, D("train")), <<"old", ".dat">>),
   join(join(OutputDataPath, D("test")), <<"old", ".dat">>)}

\* Runs that differ in what the checks of main look at.
CheckScenarios ==
  {[files |-> (join(WordDir("yes"), <<"a", ".wav">>) :> MatchWav)
                @@ (join(WordDir("no"), <<"a", ".wav">>) :> MatchWav)
                @@ (join(NoiseDir, <<"a", ".wav">>) :> LongNoise)
                @@ [p \in OldOutputs |-> OldDat],
    dirs |-> ind \cup outd,
    FLAGS |-> Flags(words, noise, ts, 1)] :
     ind \in {{}, {InputWavPath, WordDir("yes"), NoiseDir},
              {InputWavPath, WordDir("yes"), WordDir("no"), NoiseDir}},
     outd \in OutputStates,
     words \in WordsFlags, noise \in BOOLEAN,
     ts \in {<<1, 2>>, <<0, 1>>, <<1, 1>>, <<3, 2>>}}

\* A noise recording one sample longer than an example of match_len
\* samples: the only offset that can be drawn is 0.
ShortNoise ==
  [rate |-> 44100, nch |-> 1, dtype |-> "int16", data |-> <<100, 100, 100, 100, 100>>]

\* Runs with three to five recordings of one word, so that a split holds
\* several files and several noise examples are asked for.
\* The numbers <<word recordings, noise recordings, test_split>> of these
\* runs; five word recordings only with two noise recordings and 1/4.
CountCases ==
  {c \in {3, 4, 5} \X (1..2) \X {<<1, 2>>, <<1, 4>>} :
     c[1] = 5 => (c[2] = 2 /\ c[3] = <<1, 4>>)}

CountScenarios ==
  {[files |-> [p \in {join(WordDir("yes"), <<WavNameOrder[j], ".wav">>) :
                        j \in 1..c[1]} |-> MatchWav]
                @@ [p \in {join(NoiseDir, <<WavNameOrder[j], ".wav">>) :
                             j \in 1..c[2]} |-> ShortNoise],
    dirs |-> {InputWavPath, WordDir("yes"), NoiseDir},
    FLAGS |-> Flags(Some(<<Item("yes")>>), TRUE, c[3], 2)] :
     c \in CountCases}

MainScenarios ==
  WordScenarios \cup NoiseScenarios \cup CheckScenarios \cup CountScenarios

\* The state before main runs on one of the scenarios.
StartOn(scenarios) ==
  /\ \E sc \in scenarios :
       /\ files = [p \in {q \in DOMAIN sc.files : Parent(q) \in sc.dirs}
                     |-> sc.files[p]]
       /\ dirs = sc.dirs
       /\ mn = mn_frame(sc.FLAGS, sc.dirs)
  /\ scipyEmptyRaises \in BOOLEAN
  /\ randintEmptyRaises \in BOOLEAN
  /\ pc = "none"
  /\ call = [fn |-> "none"]
  /\ result = Return(<<>>)
  /\ cw = [pc |-> "idle"]
  /\ gn = [pc |-> "idle"]
  /\ log = <<>>

MainInit == StartOn(MainScenarios)

SpecMain == MainInit /\ [][main_Next]_vars

(***************************************************************************)
(* The specification of runs of main one after the other: when a run has   *)
(* created train/ and test/ and then failed, main is run again with the    *)
(* same output_data_path, on the file system the failed run left.  The     *)
(* frame of a later run records that file system in the field before.      *)
(***************************************************************************)
\* The command lines of a later run: the same one, or one that differs in
\* --include_noise, in the words, in test_split or in input_wav_path.
RerunFlags(F) ==
  {F,
   [F EXCEPT !.include_noise = ~@],
   [F EXCEPT !.words = None],
   [F EXCEPT !.words = Some(<<Item("yes"), <<" ", "yes", "">>>>)],
   [F EXCEPT !.words = Some(<<Item("yes"), Item("gone")>>)],
   [F EXCEPT !.test_split = <<1, 1>>],
   [F EXCEPT !.input_wav_path = <<D("nowhere")>>]}

main_Rerun ==
  /\ mn.pc = "raised"
  /\ join(mn.FLAGS.output_data_path, D("train")) \in dirs
  /\ join(mn.FLAGS.output_data_path, D("test")) \in dirs
  /\ \E F \in RerunFlags(mn.FLAGS) :
       mn' = [before |-> [files |-> files, dirs |-> dirs, log |-> log]]
               @@ mn_frame(F, dirs)
  /\ UNCHANGED <<files, dirs, scipyEmptyRaises, unitVars, cw, log, gn,
                 randintEmptyRaises>>

\* The first runs: those of the checks, and those on the recordings of one
\* word.
RerunScenarios ==
  CheckScenarios
    \cup {sc \in WordScenarios :
            WordDir("no") \notin sc.dirs
              /\ \A p \in DOMAIN sc.files : Parent(p) # WordDir("no")}

RerunInit == StartOn(RerunScenarios)

SpecRerun == RerunInit /\ [][main_Next \/ main_Rerun]_vars

(***************************************************************************)
(* The specification of the argument checks, at both places test_split is  *)
(* checked: a run of main on one of the command lines of CheckScenarios,   *)
(* or a direct call of convert_wav_files_in_dir on a directory with at     *)
(* most one recording.                                                     *)
(***************************************************************************)
ChecksInit ==
  /\ \/ \E sc \in CheckScenarios :
          /\ files = [p \in {q \in DOMAIN sc.files : Parent(q) \in sc.dirs}
                        |-> sc.files[p]]
          /\ dirs = sc.dirs
          /\ mn = mn_frame(sc.FLAGS, sc.dirs)
          /\ cw = [pc |-> "idle"]
     \/ \E a \in DirArgs :
          /\ files \in FilesIn(InDir, 1, {MatchWav})
          /\ dirs = {<<D("in")>>, InDir, <<D("out")>>, Parent(TrainDir),
                     Parent(TestDir)}
          /\ mn = [pc |-> "idle"]
          /\ cw = cw_frame(a)
  /\ scipyEmptyRaises \in BOOLEAN
  /\ randintEmptyRaises \in BOOLEAN
  /\ pc = "none"
  /\ call = [fn |-> "none"]
  /\ result = Return(<<>>)
  /\ gn = [pc |-> "idle"]
  /\ log = <<>>

SpecChecks == ChecksInit /\ [][main_Next]_vars

(***************************************************************************)
(* efficientnet_builder.py.  A model name is a pair <<prefix, rest>> whose *)
(* prefix is "efficientnet" exactly when the name starts with it; a float  *)
(* is a pair <<numerator, denominator>>.                                   *)
(***************************************************************************)
Name(rest) == <<"efficientnet", rest>>

startswith_efficientnet(model_name) == model_name[1] = "efficientnet"

\* params_dict: (width_coefficient, depth_coefficient, resolution,
\* dropout_rate) of each predefined model.
params_dict ==
  (Name("-b0") :> <<<<10, 10>>, <<10, 10>>, 224, <<2, 10>>>>) @@
  (Name("-b1") :> <<<<10, 10>>, <<11, 10>>, 240, <<2, 10>>>>) @@
  (Name("-b2") :> <<<<11, 10>>, <<12, 10>>, 260, <<3, 10>>>>) @@
  (Name("-b3") :> <<<<12, 10>>, <<14, 10>>, 300, <<3, 10>>>>) @@
  (Name("-b4") :> <<<<14, 10>>, <<18, 10>>, 380, <<4, 10>>>>) @@
  (Name("-b5") :> <<<<16, 10>>, <<22, 10>>, 456, <<4, 10>>>>) @@
  (Name("-b6") :> <<<<18, 10>>, <<26, 10>>, 528, <<5, 10>>>>) @@
  (Name("-b7") :> <<<<20, 10>>, <<31, 10>>, 600, <<5, 10>>>>)

\* params_dict[model_name]: a missing key raises KeyError.
efficientnet_params(model_name) ==
  IF model_name \in DOMAIN params_dict THEN Return(params_dict[model_name])
  ELSE Raise("KeyError")

\* The block a string such as r1_k3_s11_e1_i32_o16_se0.25 decodes to.
BlockArgs(r, k, s, e, i, o) ==
  [kernel_size |-> k, num_repeat |-> r, input_filters |-> i,
   output_filters |-> o, expand_ratio |-> e, id_skip |-> TRUE,
   se_ratio |-> <<25, 100>>, strides |-> s]

efficientnet(width_coefficient, depth_coefficient, dropout_rate) ==
  [blocks_args |-> <<BlockArgs(1, 3, <<1, 1>>, 1, 32, 16),
                     BlockArgs(2, 3, <<2, 2>>, 6, 16, 24),
                     BlockArgs(2, 5, <<2, 2>>, 6, 24, 40),
                     BlockArgs(3, 3, <<2, 2>>, 6, 40, 80),
                     BlockArgs(3, 5, <<1, 1>>, 6, 80, 112),
                     BlockArgs(4, 5, <<2, 2>>, 6, 112, 192),
                     BlockArgs(1, 3, <<1, 1>>, 6, 192, 320)>>,
   global_params |->
     [batch_norm_momentum |-> <<99, 100>>, batch_norm_epsilon |-> <<1, 1000>>,
      dropout_rate |-> dropout_rate, drop_connect_rate |-> <<2, 10>>,
      data_format |-> "channels_last", num_classes |-> 1000,
      width_coefficient |-> width_coefficient,
      depth_coefficient |-> depth_coefficient, depth_divisor |-> 8,
      min_depth |-> None]]

\* get_model_params: the value returned is [blocks_args, global_params].
\* An empty override_params is falsy, like None.
get_model_params(model_name, override_params) ==
  IF ~startswith_efficientnet(model_name) THEN Raise("NotImplementedError")
  ELSE LET p == efficientnet_params(model_name) IN
       IF ~p.ok THEN p
       ELSE LET m == efficientnet(p.val[1], p.val[2], p.val[4]) IN
            IF override_params = None THEN Return(m)
            ELSE IF ~(DOMAIN override_params[1] \subseteq DOMAIN m.global_params)
              THEN Raise("ValueError")
            ELSE Return([m EXCEPT !.global_params = override_params[1] @@ @])

\* tf.gfile.Exists: a file or a directory.
gfile_Exists(fsys, ds, p) == p \in DOMAIN fsys \/ p \in ds

param_file(model_dir) == join(model_dir, <<"model_params", ".txt">>)

\* build_model: the outcome res and the file system it leaves.  The graph
\* construction itself is not modelled: its value is the pair of names.
build_model(fsys, ds, images_is_tensor, model_name, override_params, model_dir) ==
  IF ~images_is_tensor
    THEN [res |-> Raise("AssertionError"), files |-> fsys, dirs |-> ds]
  ELSE LET m == get_model_params(model_name, override_params) IN
    IF ~m.ok THEN [res |-> m, files |-> fsys, dirs |-> ds]
    ELSE IF model_dir = None \/ model_dir = Some(<<>>)
           \/ gfile_Exists(fsys, ds, param_file(model_dir[1]))
      THEN [res |-> Return(<<"logits", "endpoints">>), files |-> fsys, dirs |-> ds]
    ELSE [res |-> Return(<<"logits", "endpoints">>),
          files |-> WriteFile(fsys, param_file(model_dir[1]),
                              [model_name |-> model_name,
                               global_params |-> m.val.global_params,
                               blocks_args |-> m.val.blocks_args]),
          dirs |-> IF gfile_Exists(fsys, ds, model_dir[1]) THEN ds
                   ELSE makedirs(ds, model_dir[1])]

build_model_base(images_is_tensor, model_name, override_params) ==
  IF ~images_is_tensor THEN Raise("AssertionError")
  ELSE LET m == get_model_params(model_name, override_params) IN
    IF ~m.ok THEN m ELSE Return(<<"global_pool", "endpoints">>)

(***************************************************************************)
(* The specification of the builder: one call of get_model_params,         *)
(* build_model or build_model_base.                                        *)
(***************************************************************************)
ModelDir == <<D("model_dir")>>

ModelNames ==
  DOMAIN params_dict \cup {Name("-b8"), Name(""), Name("-B0"),
                           <<"", "mnasnet-a1">>, <<"", "">>}

OverrideParams ==
  {None, Some([num_classes |-> 10]), Some([num_class |-> 10])}

ModelDirs == {None, Some(<<>>), Some(ModelDir)}

OldParams == [model_name |-> Name("-b0")]

BuilderInit ==
  /\ \/ files = <<>> /\ dirs = {}
     \/ files = <<>> /\ dirs = {ModelDir}
     \/ files = (param_file(ModelDir) :> OldParams) /\ dirs = {ModelDir}
  /\ scipyEmptyRaises = FALSE
  /\ pc = "start"
  /\ call = [fn |-> "none"]
  /\ result = Return(<<>>)
  /\ cw = [pc |-> "idle"]
  /\ log = <<>>
  /\ mn = [pc |-> "idle"]
  /\ gn = [pc |-> "idle"]
  /\ randintEmptyRaises = FALSE

CallGetModelParams ==
  /\ pc = "start"
  /\ \E model_name \in ModelNames, override_params \in OverrideParams :
       /\ call' = [fn |-> "get_model_params", model_name |-> model_name,
                   override_params |-> override_params, images_is_tensor |-> TRUE,
                   before |-> [files |-> files, dirs |-> dirs]]
       /\ result' = get_model_params(model_name, override_params)
  /\ pc' = "done"
  /\ UNCHANGED <<files, dirs, scipyEmptyRaises, cw, log, mainVars>>

CallBuildModel ==
  /\ pc = "start"
  /\ \E images_is_tensor \in BOOLEAN, model_name \in ModelNames,
        override_params \in OverrideParams, model_dir \in ModelDirs :
       LET b == build_model(files, dirs, images_is_tensor, model_name,
                            override_params, model_dir) IN
       /\ call' = [fn |-> "build_model", model_name |-> model_name,
                   override_params |-> override_params,
                   images_is_tensor |-> images_is_tensor, model_dir |-> model_dir,
                   before |-> [files |-> files, dirs |-> dirs]]
       /\ result' = b.res
       /\ files' = b.files
       /\ dirs' = b.dirs
  /\ pc' = "done"
  /\ UNCHANGED <<scipyEmptyRaises, cw, log, mainVars>>

CallBuildModelBase ==
  /\ pc = "start"
  /\ \E images_is_tensor \in BOOLEAN, model_name \in ModelNames,
        override_params \in OverrideParams :
       /\ call' = [fn |-> "build_model_base", model_name |-> model_name,
                   override_params |-> override_params,
                   images_is_tensor |-> images_is_tensor,
                   before |-> [files |-> files, dirs |-> dirs]]
       /\ result' = build_model_base(images_is_tensor, model_name, override_params)
  /\ pc' = "done"
  /\ UNCHANGED <<files, dirs, scipyEmptyRaises, cw, log, mainVars>>

BuilderNext == CallGetModelParams \/ CallBuildModel \/ CallBuildModelBase

SpecBuilder == BuilderInit /\ [][BuilderNext]_vars

(***************************************************************************)
(* utils.py, archive_ckpt.  An objective is an integer number of halves    *)
(* of 0.000001, so that the six decimals of "%f" lose its last digit.      *)
(***************************************************************************)
ObjScale == 2

\* "%f" % x: the text of x with six decimals, as its number of 0.000001;
\* the nearest one, a tie going to the even one.
format_f(x) == np_round(x, ObjScale)

\* float(text) of a text written by format_f.
float_of(text) == text * ObjScale

\* float("-inf") is None here; saved > x for a saved objective.
greater(saved, x) == saved # None /\ saved[1] > x

split(ckpt_path) == <<Parent(ckpt_path), basename(ckpt_path)[1]>>

saved_objective_path(ckpt_dir) == join(ckpt_dir, <<"best_objective", ".txt">>)

\* Lines 169-172: the saved best objective, -inf without the file.
saved_objective(fsys, ckpt_dir) ==
  IF saved_objective_path(ckpt_dir) \in DOMAIN fsys
    THEN Some(float_of(fsys[saved_objective_path(ckpt_dir)].text))
    ELSE None

\* tf.gfile.Glob(ckpt_path + ".*"): a list, empty when nothing matches.
Glob(fsys, ckpt_path) ==
  {f \in DOMAIN fsys : /\ Parent(f) = Parent(ckpt_path)
                        /\ basename(f)[1] = basename(ckpt_path)[1]
                        /\ basename(f)[2] # ""}

DeleteRecursively(fsys, d) == [f \in {g \in DOMAIN fsys : ~Under(g, d)} |-> fsys[f]]

\* The outcome of archive_ckpt: what it returns and the file system it
\* leaves.  Glob never returns None, so line 178's test never succeeds.
archive_ckpt(fsys, ds, ckpt_eval, ckpt_objective, ckpt_path) ==
  LET ckpt_dir  == split(ckpt_path)[1]
      ckpt_name == split(ckpt_path)[2]
      filenames == Glob(fsys, ckpt_path)
      dst_dir   == join(ckpt_dir, D("archive"))
      cleared   == DeleteRecursively(fsys, dst_dir)
      copies    == [f \in {join(dst_dir, basename(g)) : g \in filenames}
                      |-> fsys[join(ckpt_dir, basename(f))]]
      written   == (saved_objective_path(ckpt_dir) :> [text |-> format_f(ckpt_objective)])
                   @@ (join(dst_dir, <<"best_eval", ".txt">>) :> [text |-> ckpt_eval])
                   @@ (join(dst_dir, D("checkpoint")) :>
                         [model_checkpoint_path |-> ckpt_name])
                   @@ copies
  IN  IF greater(saved_objective(fsys, ckpt_dir), ckpt_objective)
        THEN [res |-> Return(FALSE), files |-> fsys, dirs |-> ds]
        ELSE [res |-> Return(TRUE), files |-> written @@ cleared,
              dirs |-> makedirs({d \in ds : d # dst_dir /\ ~Under(d, dst_dir)}, dst_dir)]

(***************************************************************************)
(* The specification of archive_ckpt: up to MaxCalls calls, one after the  *)
(* other, on a model directory that holds the files of some checkpoints.   *)
(***************************************************************************)
MaxCalls == 3

MaxObjective == 4

CkptNames == {"model.ckpt-1", "model.ckpt-2"}

CkptParts == {".index", ".meta"}

CkptPath(name) == join(ModelDir, D(name))

CkptFiles(names) ==
  [f \in {join(ModelDir, <<n, part>>) : n \in names, part \in CkptParts}
     |-> [ckpt |-> basename(f)[1], part |-> basename(f)[2]]]

Eval(name) == [top_1_accuracy |-> name]

ArchiveInit ==
  /\ \E names \in SUBSET CkptNames : files = CkptFiles(names)
  /\ dirs = {ModelDir}
  /\ scipyEmptyRaises = FALSE
  /\ pc = "start"
  /\ call = [fn |-> "none"]
  /\ result = Return(<<>>)
  /\ cw = [pc |-> "idle"]
  /\ log = <<>>
  /\ mn = [pc |-> "idle"]
  /\ gn = [pc |-> "idle"]
  /\ randintEmptyRaises = FALSE

CallArchiveCkpt ==
  /\ Len(log) < MaxCalls
  /\ \E name \in CkptNames, ckpt_objective \in 0..MaxObjective :
       LET a == archive_ckpt(files, dirs, Eval(name), ckpt_objective,
                             CkptPath(name)) IN
       /\ call' = [fn |-> "archive_ckpt", ckpt_eval |-> Eval(name),
                   ckpt_objective |-> ckpt_objective, ckpt_path |-> CkptPath(name),
                   before |-> [files |-> files, dirs |-> dirs]]
       /\ result' = a.res
       /\ files' = a.files
       /\ dirs' = a.dirs
       /\ log' = Append(log, [ckpt_path |-> CkptPath(name),
                              ckpt_objective |-> ckpt_objective,
                              archived |-> a.res.val,
                              saved |-> saved_objective(a.files, ModelDir)])
  /\ pc' = "done"
  /\ UNCHANGED <<scipyEmptyRaises, cw, mainVars>>

SpecArchive == ArchiveInit /\ [][CallArchiveCkpt]_vars

(***************************************************************************)
(* Properties of convert_wav_files_in_dir (specification SpecDir).         *)
(***************************************************************************)
DatFilesUnder(d) ==
  {p \in DOMAIN files : Under(p, d) /\ basename(p)[2] = ".dat"}

OutputDatFiles ==
  DatFilesUnder(cw.args.output_dir)
    \cup (IF cw.args.test_output_dir = None THEN {}
          ELSE DatFilesUnder(cw.args.test_output_dir[1]))

Range(seq) == {seq[k] : k \in 1..Len(seq)}

\* C1: after convert_wav_files_in_dir returns, every .dat file under its
\* train and test output directories holds a positive whole number of frames
\* of float samples and, when match_len is given, exactly match_len samples.
C1_PersistedLengths ==
  cw.pc = "returned" =>
    \A p \in OutputDatFiles :
      /\ Len(files[p]) % 4 = 0
      /\ \E q \in 1..Len(files[p]) : Len(files[p]) = 4 * q * cw.args.frame_size
      /\ cw.args.match_len # None => Len(files[p]) = 4 * cw.args.match_len[1]

\* The call returned with match_len given, a file kept and a file skipped.
C1_Witness ==
  /\ cw.pc = "returned"
  /\ cw.args.match_len # None
  /\ OutputDatFiles # {}
  /\ \E k \in 1..Len(log) : log[k].skipped

\* C3: with match_len given, a converted file of another length is deleted
\* and the call goes on: it raises only when a conversion itself raises,
\* and when it returns every file of both splits has been converted.
C3_MismatchIsSkipped ==
  cw.pc # "idle" /\ cw.args.match_len # None =>
    /\ \A k \in 1..Len(log) :
         (log[k].ok /\ log[k].len # cw.args.match_len[1]) =>
           ~isfile(files, log[k].out_path)
    /\ (cw.pc = "raised" /\ log # <<>>) => ~log[Len(log)].ok
    /\ cw.pc = "returned" =>
         \A path \in Range(cw.train_wav_paths) \cup Range(cw.test_wav_paths) :
           \E k \in 1..Len(log) : log[k].in_path = path /\ log[k].ok

\* A file of the train split was skipped and files after it, in the train
\* and in the test split, were converted and kept.
C3_Witness ==
  /\ cw.pc = "returned"
  /\ \E k \in 1..Len(log) :
       /\ log[k].skipped
       /\ log[k].n = 0
       /\ \E j \in (k + 1)..Len(log) :
            log[j].n = 0 /\ ~log[j].skipped /\ isfile(files, log[j].out_path)
       /\ \E j \in (k + 1)..Len(log) :
            log[j].n = 1 /\ ~log[j].skipped /\ isfile(files, log[j].out_path)

\* C4: the returned pair (num_train_examples, num_test_examples) is the
\* number of .dat files present on return under the train and under the test
\* output directory.
C4_CountsAreFilesPresent ==
  cw.pc = "returned" =>
    cw.res.val = <<Cardinality(DatFilesUnder(cw.args.output_dir)),
                   IF cw.args.test_output_dir = None THEN 0
                   ELSE Cardinality(DatFilesUnder(cw.args.test_output_dir[1]))>>

\* What the code does count: the files converted, kept or skipped.
C4_CountsAreFilesConverted ==
  cw.pc = "returned" =>
    cw.res.val = <<Cardinality({k \in 1..Len(log) : log[k].n = 0}),
                   Cardinality({k \in 1..Len(log) : log[k].n = 1})>>

\* C9: with test_split given, the train and test lists are a partition of
\* the input .wav files for every shuffle, and on return each input file has
\* been converted exactly once, into the split that lists it.
C9_SplitIsPartition ==
  (cw.pc \in {"loop", "returned"} /\ cw.args.test_split # None) =>
    /\ cw.in_wav_paths = glob_wav(files, cw.args.input_dir)
    /\ Range(cw.train_wav_paths) \cap Range(cw.test_wav_paths) = {}
    /\ Range(cw.train_wav_paths) \cup Range(cw.test_wav_paths)
         = Range(cw.in_wav_paths)
    /\ Len(cw.train_wav_paths) + Len(cw.test_wav_paths) = Len(cw.in_wav_paths)
    /\ cw.pc = "returned" =>
         \A path \in Range(cw.in_wav_paths) :
           /\ Cardinality({k \in 1..Len(log) : log[k].in_path = path}) = 1
           /\ \A k \in 1..Len(log) :
                log[k].in_path = path =>
                  (log[k].n = 0 <=> path \in Range(cw.train_wav_paths))

\* Three files were split into two train files and one test file, the
\* shuffle having put the last file first, and all were converted.
C9_Witness ==
  /\ cw.pc = "returned"
  /\ cw.args.test_split # None
  /\ Len(cw.in_wav_paths) = 3
  /\ Len(cw.train_wav_paths) = 2
  /\ cw.train_wav_paths[1] = cw.in_wav_paths[3]
  /\ Len(log) = 3

\* C10: for n input files and test_split t, the train split has
\* round((1 - t) * n) files (nearest integer, a tie to the even one) and
\* the test split the other n - round((1 - t) * n); both lie in [0, n].
C10_SplitSizes ==
  (cw.pc \in {"loop", "returned"} /\ cw.args.test_split # None) =>
    LET t == cw.args.test_split[1]
        n == Len(cw.in_wav_paths)
        k == Len(cw.train_wav_paths)
        \* (1 - t) * n = x / t[2]
        x == (t[2] - t[1]) * n
    IN  /\ 2 * (k * t[2] - x) <= t[2]
        /\ 2 * (x - k * t[2]) <= t[2]
        /\ (2 * (k * t[2] - x) = t[2] \/ 2 * (x - k * t[2]) = t[2]) => k % 2 = 0
        /\ Len(cw.test_wav_paths) = n - k
        /\ 0 <= k /\ k <= n
        /\ 0 <= n - k /\ n - k <= n

\* Three files with test_split 1/2: (1 - t) * n = 1.5 rounds to 2 train
\* files and leaves 1 test file.
C10_Witness ==
  /\ cw.pc = "loop"
  /\ cw.args.test_split = Some(<<1, 2>>)
  /\ Len(cw.in_wav_paths) = 3
  /\ Len(cw.train_wav_paths) = 2
  /\ Len(cw.test_wav_paths) = 1

\* The 0-based position, within its split, of the file of log entry k.
IndexInSplit(k) == Cardinality({j \in 1..(k - 1) : log[j].n = log[k].n})

\* The files directly in directory d.
FilesOfFolder(d) == {p \in DOMAIN files : Parent(p) = d}

\* The directories directly below directory d.
Subfolders(d) == {e \in dirs : Len(e) = Len(d) + 1 /\ Parent(e) = d}

C12_NoWavFilesRaises ==
  (cw.pc \notin {"idle", "entry"} /\ glob_wav(files, cw.args.input_dir) = <<>>) =>
    /\ cw.pc = "raised"
    /\ ~cw.res.ok
    /\ log = <<>>
    /\ OutputDatFiles = {}

\* A call with valid arguments on an empty input directory raised the error
\* of line 207.
C12_Witness ==
  /\ cw.pc = "raised"
  /\ cw.args.test_split \in {Some(t) : t \in TestSplits}
  /\ cw.args.test_output_dir # None
  /\ cw.res.err = "ValueError: Cannot find any .wav files"
  /\ glob_wav(files, cw.args.input_dir) = <<>>

\* C25: when the conversion of an input file raises (a signal shorter than
\* one frame, a wav that is not mono 16-bit), the call ends at once with
\* that error: the failed file is the last one tried, no file is tried
\* twice, no later file of either split is converted, and the files
\* converted and kept before it are still on disk.
C25_AbortsOnFirstFailure ==
  cw.pc # "idle" =>
    /\ \A k \in 1..Len(log) :
         ~log[k].ok =>
           /\ k = Len(log)
           /\ cw.pc = "raised"
           /\ cw.res.err \in {"ValueError: 0 samples", "AssertionError",
                               "ValueError: resample"}
           /\ ~isfile(files, log[k].out_path)
    /\ \A j, k \in 1..Len(log) : log[j].in_path = log[k].in_path => j = k
    /\ (cw.pc = "raised" /\ log # <<>>) =>
         /\ ~log[Len(log)].ok
         /\ \A k \in 1..(Len(log) - 1) :
              log[k].ok /\ (~log[k].skipped => isfile(files, log[k].out_path))
         /\ OutputDatFiles
              = {log[k].out_path : k \in {j \in 1..Len(log) :
                                            log[j].ok /\ ~log[j].skipped}}

\* The second of three files was too short: the call raised with the first
\* file on disk and the third never tried.
C25_Witness ==
  /\ cw.pc = "raised"
  /\ cw.res.err = "ValueError: 0 samples"
  /\ Len(cw.in_wav_paths) = 3
  /\ Len(log) = 2
  /\ isfile(files, log[1].out_path)
  /\ \E path \in Range(cw.in_wav_paths) :
       \A k \in 1..Len(log) : log[k].in_path # path

\* The call failed one of the checks made before the loop.
PreconditionFailed == cw.pc = "raised" /\ log = <<>>

\* C27: when convert_wav_files_in_dir fails a precondition (test_split out
\* of range, test_split without test_output_dir, no .wav file in input_dir)
\* it has not touched the file system: neither output_dir nor
\* test_output_dir nor any other directory or file has been created.
C27_PreconditionFailureCreatesNothing ==
  PreconditionFailed =>
    /\ cw.args.output_dir \notin dirs
    /\ cw.args.test_output_dir # None => cw.args.test_output_dir[1] \notin dirs
    /\ \A d \in dirs : ~Under(d, Parent(cw.args.output_dir))
    /\ DOMAIN files = {p \in DOMAIN files : Under(p, cw.args.input_dir)}

\* What holds of the code: on such a failure no file has been created, but
\* output_dir has, and so has test_output_dir unless the failure is one of
\* the two test_split checks, which come before it.
C27_DirectoriesAreCreated ==
  PreconditionFailed =>
    /\ DOMAIN files = {p \in DOMAIN files : Under(p, cw.args.input_dir)}
    /\ cw.args.output_dir \in dirs
    /\ cw.res.err = "ValueError: Cannot find any .wav files" =>
         (cw.args.test_split # None => cw.args.test_output_dir[1] \in dirs)
    /\ cw.res.err # "ValueError: Cannot find any .wav files" =>
         (cw.args.test_output_dir # None => cw.args.test_output_dir[1] \notin dirs)

(***************************************************************************)
(* Properties of convert_wav_files_in_dir with directories that may        *)
(* coincide (specification SpecAlias).                                     *)
(***************************************************************************)
\* The log entries of files converted and kept.
KeptEntries == {k \in 1..Len(log) : log[k].ok /\ ~log[k].skipped}

\* The .wav files directly in the input directory.
InputWavs ==
  {p \in DOMAIN files : Parent(p) = cw.args.input_dir /\ basename(p)[2] = ".wav"}

\* C30: within one call of convert_wav_files_in_dir different input files
\* are written to different output paths, also when test_output_dir is
\* output_dir; every output path ends in .dat; the only file removed is
\* the output just written for the current input, so the outputs kept
\* stay as written; and the input .wav files are neither deleted nor
\* modified, also when the output directory is the input directory.
C30_OutputsDistinctInputsKept ==
  cw.pc \in {"loop", "returned", "raised"} =>
    /\ \A j, k \in 1..Len(log) :
         log[j].in_path # log[k].in_path => log[j].out_path # log[k].out_path
    /\ \A k \in 1..Len(log) :
         /\ basename(log[k].out_path)[2] = ".dat"
         /\ log[k].out_path \notin InputWavs
    /\ DOMAIN files = InputWavs \cup {log[k].out_path : k \in KeptEntries}
    /\ \A k \in KeptEntries : files[log[k].out_path] \notin DirWavPool
                                 /\ Len(files[log[k].out_path]) = 4 * log[k].len
    /\ (log # <<>> \/ cw.pc = "loop") =>
         /\ InputWavs = Range(cw.in_wav_paths)
         /\ cw.in_wav_paths = glob_wav(files, cw.args.input_dir)
    /\ \A p \in InputWavs : files[p] \in DirWavPool

\* Output, test output and input directory are the same: a train file and
\* a test file were written into its subfolder 0, a third output was
\* removed for its length, and the three inputs are still there.
C30_Witness ==
  /\ cw.pc = "returned"
  /\ cw.args.output_dir = cw.args.input_dir
  /\ cw.args.test_output_dir = Some(cw.args.input_dir)
  /\ Cardinality(InputWavs) = 3
  /\ \E j, k \in KeptEntries :
       /\ log[j].n = 0 /\ log[k].n = 1
       /\ Parent(log[j].out_path) = join(cw.args.input_dir, D("0"))
       /\ Parent(log[k].out_path) = join(cw.args.input_dir, D("0"))
  /\ \E k \in 1..Len(log) : log[k].skipped

(***************************************************************************)
(* Properties of main (specification SpecMain).                            *)
(***************************************************************************)
\* The frames a wav file converts to: at least one.
Converts(wav) ==
  load_and_normalize_waveform(wav, mn.FLAGS.target_fs, mn.FLAGS.frame_size,
                              scipyEmptyRaises).ok

\* The preconditions of a run: input_wav_path is a directory, --words is
\* given without duplicates, every word has a directory with at least one
\* .wav and all of its .wav files are long enough for one frame, test_split
\* is in (0, 1) and neither train/ nor test/ exists at the start.
C2_Preconditions ==
  LET F == mn.FLAGS IN
  /\ F.input_wav_path \in mn.dirs0
  /\ F.words # None
  /\ ~has_duplicates(parse_words(F.words[1]))
  /\ \A k \in 1..Len(F.words[1]) :
       LET word_dir == join(F.input_wav_path, D(strip(F.words[1][k]))) IN
       /\ word_dir \in mn.dirs0
       /\ glob_wav(files, word_dir) # <<>>
       /\ \A j \in 1..Len(glob_wav(files, word_dir)) :
            Converts(files[glob_wav(files, word_dir)[j]])
  /\ valid_test_split(F.test_split)
  /\ join(F.output_data_path, D("train")) \notin mn.dirs0
  /\ join(F.output_data_path, D("test")) \notin mn.dirs0

\* With --include_noise, noise recordings to draw from: at least one, each
\* longer than one example.
C2_NoiseAvailable ==
  LET noise == glob_wav(files, join(mn.FLAGS.input_wav_path, BACKGROUND_NOISE_DIR)) IN
  mn.FLAGS.include_noise =>
    /\ noise # <<>>
    /\ \A j \in 1..Len(noise) :
         /\ ValidWav(files[noise[j]])
         /\ Len(files[noise[j]].data)
              > sample_length_0(mn.FLAGS.match_len, mn.FLAGS.target_fs,
                                files[noise[j]].rate)

\* C2: a run of main whose preconditions all hold terminates normally,
\* without raising an error, whether or not --include_noise is given.
C2_MainTerminatesNormally ==
  (mn.pc # "idle" /\ C2_Preconditions /\ C2_NoiseAvailable) => mn.pc # "raised"

\* What holds of the code: such a run terminates normally with
\* --include_noise, and raises without it.
C2_OnlyWithNoise ==
  (mn.pc # "idle" /\ C2_Preconditions /\ C2_NoiseAvailable) =>
    /\ mn.pc = "raised" =>
         /\ ~mn.FLAGS.include_noise
         /\ mn.res.err = "ValueError: input_wav_path must be a directory."
    /\ mn.pc = "returned" => mn.FLAGS.include_noise

\* main has neither converted a file nor reached the noise examples.
BeforeConversion == mn.pc \in {"start", "after_words", "raised"} /\ log = <<>>

\* The directories are those of the start of the run, and below
\* output_data_path there are only the files of the earlier run, unchanged.
OutputUntouched ==
  /\ dirs = mn.dirs0
  /\ \A p \in OldOutputs : Parent(p) \in mn.dirs0 => isfile(files, p)
  /\ \A p \in DOMAIN files :
       Under(p, mn.FLAGS.output_data_path) => p \in OldOutputs /\ files[p] = OldDat

\* The run is over and has failed.
Failed == mn.pc = "raised" /\ ~mn.res.ok

\* The run is over.
Over == mn.pc \in {"raised", "returned"}

\* C13: if some listed word has no directory under input_wav_path, main
\* fails with no directory created and no file converted, also for the
\* words before it whose directories exist.
C13_WordDirsCheckedFirst ==
  LET F == mn.FLAGS IN
  (mn.pc # "idle" /\ F.words # None
     /\ \E k \in 1..Len(F.words[1]) :
          join(F.input_wav_path, D(strip(F.words[1][k]))) \notin mn.dirs0) =>
    /\ BeforeConversion
    /\ OutputUntouched
    /\ Over => Failed

\* The run failed on the missing directory of the second word, the
\* directory of the first word being there.
C13_Witness ==
  /\ Failed
  /\ mn.res.err = "ValueError: Missing word directory"
  /\ WordDir(strip(mn.FLAGS.words[1][1])) \in mn.dirs0
  /\ WordDir(strip(mn.FLAGS.words[1][2])) \notin mn.dirs0
  /\ OutputUntouched

\* C14: a --words list with the same label twice, after trimming the
\* blanks around each item, makes main fail before it creates any output;
\* so in every run the words converted are pairwise different and each
\* label directory under train/ and test/ receives the files of one word.
C14_LabelsUnique ==
  LET F == mn.FLAGS IN
  mn.pc # "idle" =>
    /\ (F.words # None /\ has_duplicates(parse_words(F.words[1]))) =>
         /\ BeforeConversion
         /\ OutputUntouched
         /\ Over => Failed
    /\ \A j, k \in 1..Len(mn.words) : mn.words[j] = mn.words[k] => j = k
    /\ \A k \in 1..Len(log) :
         log[k].n \in {0, 1} =>
           /\ Parent(Parent(log[k].out_path))
                = join(join(F.output_data_path, split_name(log[k].n)),
                       basename(Parent(log[k].in_path)))
           /\ Cardinality({j \in 1..Len(mn.words) :
                             D(mn.words[j]) = basename(Parent(log[k].in_path))}) = 1

\* The run failed on 'yes, yes': the items differ, the labels do not.
C14_Witness ==
  /\ Failed
  /\ mn.res.err = "ValueError: Found duplicate items in words"
  /\ mn.FLAGS.words[1][1] # mn.FLAGS.words[1][2]
  /\ strip(mn.FLAGS.words[1][1]) = strip(mn.FLAGS.words[1][2])
  /\ OutputUntouched

\* C15: if train/ or test/ is a directory under output_data_path when main
\* starts, main fails before converting any file and the output tree stays
\* as it was: nothing is created, overwritten or deleted.
C15_ExistingOutputRefused ==
  LET F == mn.FLAGS IN
  (mn.pc # "idle"
     /\ (join(F.output_data_path, D("train")) \in mn.dirs0
           \/ join(F.output_data_path, D("test")) \in mn.dirs0)) =>
    /\ BeforeConversion
    /\ OutputUntouched
    /\ Over => Failed

\* The run failed on an existing test/ that holds a file of an earlier
\* run, all other checks having passed.
C15_Witness ==
  /\ Failed
  /\ mn.res.err = "ValueError: train or test subdirectory already exists."
  /\ join(mn.FLAGS.output_data_path, D("train")) \notin mn.dirs0
  /\ \E p \in OldOutputs : isfile(files, p) /\ files[p] = OldDat

\* C16: a call of convert_wav_files_in_dir with a test_split raises, before
\* converting any file, when test_split is not strictly between 0 and 1 (0
\* and 1 included) or when no test_output_dir is given; a run of main fails,
\* before converting any file, when --test_split is not strictly between 0
\* and 1.
C16_TestSplitChecked ==
  /\ (mn.pc = "idle" /\ cw.pc \notin {"idle", "entry"}
        /\ cw.args.test_split # None) =>
       LET t == cw.args.test_split[1] IN
       /\ ~(0 < t[1] /\ t[1] < t[2]) =>
            cw.pc = "raised" /\ cw.res.err = "AssertionError" /\ log = <<>>
       /\ cw.args.test_output_dir = None =>
            cw.pc = "raised" /\ ~cw.res.ok /\ log = <<>>
       /\ (cw.pc = "raised" /\ log = <<>>
             /\ glob_wav(files, cw.args.input_dir) # <<>>) =>
            ~(0 < t[1] /\ t[1] < t[2]) \/ cw.args.test_output_dir = None
  /\ mn.pc # "idle" =>
       LET t == mn.FLAGS.test_split IN
       ~(0 < t[1] /\ t[1] < t[2]) => BeforeConversion /\ (Over => Failed)

\* A direct call with test_split = 1 and a test_output_dir, on a directory
\* with a recording, raised on the assertion of line 198.
C16_Witness ==
  /\ mn.pc = "idle"
  /\ cw.pc = "raised"
  /\ cw.res.err = "AssertionError"
  /\ cw.args.test_split = Some(<<1, 1>>)
  /\ cw.args.test_output_dir # None
  /\ glob_wav(files, cw.args.input_dir) # <<>>

\* C17: if input_wav_path is not a directory, main fails with the error
\* 'input_wav_path must be a directory.', with and without --include_noise,
\* and creates no output.
C17_NotADirectoryError ==
  (Over /\ mn.FLAGS.input_wav_path \notin mn.dirs0) =>
    /\ Failed
    /\ mn.res.err = "ValueError: input_wav_path must be a directory."
    /\ OutputUntouched

\* What holds of the code: such a run fails and creates nothing, with that
\* error only without --include_noise.
C17_FailsEitherWay ==
  (Over /\ mn.FLAGS.input_wav_path \notin mn.dirs0) =>
    /\ Failed
    /\ OutputUntouched
    /\ BeforeConversion
    /\ mn.res.err = IF mn.FLAGS.include_noise THEN "UnboundLocalError"
                    ELSE "ValueError: input_wav_path must be a directory."

\* The 0-based position of the file of log entry k among the files of its
\* word and split.
WordIndex(k) ==
  Cardinality({j \in 1..(k - 1) :
                 /\ log[j].n = log[k].n
                 /\ Parent(log[j].in_path) = Parent(log[k].in_path)})

\* The split directory ('train' or 'test') an output path lies in.
SplitOf(out_path) == out_path[Len(mn.FLAGS.output_data_path) + 1]

\* The 0-based position of the noise file of log entry k among the noise
\* files of its split.
NoiseIndex(k) ==
  Cardinality({j \in 1..(k - 1) :
                 log[j].n = 2 /\ SplitOf(log[j].out_path) = SplitOf(log[k].out_path)})

\* The path <base>/<subfolder_index>/<name> with
\* subfolder_index = floor(index / recordings_per_subfolder).
InSubfolder(path, base, index, name) ==
  \E q \in 0..index :
    /\ IsFloorOf(q, index, mn.FLAGS.recordings_per_subfolder)
    /\ path = join(join(base, D(IntStr(q))), name)

\* The noise files follow the indexed scheme.
NoiseLayout ==
  \A k \in 1..Len(log) :
    log[k].n = 2 =>
      /\ SplitOf(log[k].out_path) \in {D("train"), D("test")}
      /\ InSubfolder(log[k].out_path,
                     join(join(mn.FLAGS.output_data_path, SplitOf(log[k].out_path)),
                          BACKGROUND_NOISE_DIR),
                     NoiseIndex(k), <<Pad5(NoiseIndex(k)), ".dat">>)

\* C21 as stated: every converted word file is written at
\* <output>/<train|test>/<word>/<subfolder_index>/<NNNNN>.dat, NNNNN the
\* five-digit index of the file within its split and subfolder_index =
\* floor(index / recordings_per_subfolder); the noise files likewise under
\* <output>/<split>/_background_noise_/.
C21_IndexedLayout ==
  mn.pc # "idle" =>
    /\ \A k \in 1..Len(log) :
         (log[k].n \in {0, 1} /\ log[k].ok) =>
           InSubfolder(log[k].out_path,
                       join(join(mn.FLAGS.output_data_path, split_name(log[k].n)),
                            basename(Parent(log[k].in_path))),
                       WordIndex(k), <<Pad5(WordIndex(k)), ".dat">>)
    /\ NoiseLayout

\* C21 as amended: a converted word file is written at
\* <output>/<train|test>/<word>/<subfolder_index>/<name>.dat, <name> the
\* name of the input file without its extension .wav and subfolder_index =
\* floor(index / recordings_per_subfolder) for the index of the file within
\* its split; the noise files are written at
\* <output>/<split>/_background_noise_/<subfolder_index>/<NNNNN>.dat.
C21_Layout ==
  mn.pc # "idle" =>
    /\ \A k \in 1..Len(log) :
         (log[k].n \in {0, 1} /\ log[k].ok) =>
           /\ basename(log[k].in_path)[2] = ".wav"
           /\ InSubfolder(log[k].out_path,
                          join(join(mn.FLAGS.output_data_path, split_name(log[k].n)),
                               basename(Parent(log[k].in_path))),
                          WordIndex(k), <<basename(log[k].in_path)[1], ".dat">>)
           /\ (~log[k].skipped => isfile(files, log[k].out_path))
    /\ NoiseLayout
    /\ \A k \in 1..Len(log) : log[k].n = 2 => isfile(files, log[k].out_path)

\* With 2 recordings per subfolder, the third train file of a word went to
\* subfolder 1 under its own name and the third noise file to 1/00002.dat.
C21_Witness ==
  /\ mn.pc = "returned"
  /\ mn.FLAGS.recordings_per_subfolder = 2
  /\ \E k \in 1..Len(log) :
       /\ log[k].n = 0
       /\ WordIndex(k) = 2
       /\ log[k].out_path = <<D("out"), D("train"), D("yes"), D("1"),
                              <<basename(log[k].in_path)[1], ".dat">>>>
       /\ isfile(files, log[k].out_path)
  /\ isfile(files, <<D("out"), D("train"), BACKGROUND_NOISE_DIR, D("1"),
                     <<"00002", ".dat">>>>)

\* The noise log entries of split directory s, in the order written.
NoiseEntries(s) == {k \in 1..Len(log) : log[k].n = 2 /\ SplitOf(log[k].out_path) = s}

\* C22: in main with --include_noise the file indices of the noise files of
\* a split continue from one recording to the next (recording r starts at
\* r * m for m examples per recording), no noise file of an earlier
\* recording is overwritten by a later one, and every numbered noise
\* subfolder holds at most recordings_per_subfolder files.
C22_NoiseIndicesContinue ==
  mn.pc # "idle" =>
    /\ mn.pc = "in_noise" /\ gn.pc # "idle" =>
         /\ gn.args.file_begin_index = mn.r * mn.num_examples
         /\ \A i \in 1..gn.i :
              isfile(files,
                     noise_out_data_path(
                       subfolder_of(gn.args.noise_out_dir,
                                    mn.r * mn.num_examples + i - 1,
                                    mn.FLAGS.recordings_per_subfolder),
                       mn.r * mn.num_examples + i - 1))
    /\ \A s \in {D("train"), D("test")} :
         /\ \A j, k \in NoiseEntries(s) :
              j # k => log[j].out_path # log[k].out_path
         /\ \A k \in NoiseEntries(s) : isfile(files, log[k].out_path)
         /\ Cardinality(DatFilesUnder(join(join(mn.FLAGS.output_data_path, s),
                                           BACKGROUND_NOISE_DIR)))
              = Cardinality(NoiseEntries(s))
         /\ \A d \in Subfolders(join(join(mn.FLAGS.output_data_path, s),
                                      BACKGROUND_NOISE_DIR)) :
              Cardinality(FilesOfFolder(d)) <= mn.FLAGS.recordings_per_subfolder

\* Two recordings with two examples each: the second recording wrote the
\* files 00002 and 00003 of the train split, after 00000 and 00001 of the
\* first, two files per subfolder.
C22_Witness ==
  /\ mn.pc = "returned"
  /\ Len(mn.raw_noise_wav_paths) = 2
  /\ mn.FLAGS.recordings_per_subfolder = 2
  /\ \E j, k \in NoiseEntries(D("train")) :
       /\ log[j].in_path = mn.raw_noise_wav_paths[1]
       /\ log[k].in_path = mn.raw_noise_wav_paths[2]
       /\ basename(log[j].out_path) = <<"00001", ".dat">>
       /\ basename(log[k].out_path) = <<"00003", ".dat">>
       /\ Parent(log[k].out_path)
            = <<D("out"), D("train"), BACKGROUND_NOISE_DIR, D("1")>>
  /\ Cardinality(DatFilesUnder(<<D("out"), D("train"), BACKGROUND_NOISE_DIR>>)) = 4

\* M is the mean of the numbers nums rounded to the nearest integer, a tie
\* to the even one; stated without division.
IsRoundedMean(M, nums) ==
  LET S == Sum(nums)
      n == Len(nums)
  IN  /\ 2 * (M * n - S) <= n
      /\ 2 * (S - M * n) <= n
      /\ (2 * (M * n - S) = n \/ 2 * (S - M * n) = n) => M % 2 = 0

\* The noise examples written for split s (0: train, 1: test) are k * m,
\* m from every one of the k recordings, for m = floor(M / k) and M the
\* rounded mean of the counts the words returned for the split.
NoiseCountIs(s, nums) ==
  LET k == Len(mn.raw_noise_wav_paths)
      written == NoiseEntries(split_name(s))
  IN  \E M \in 0..Sum(nums) :
        /\ IsRoundedMean(M, nums)
        /\ \E m \in 0..M :
             /\ IsFloorOf(m, M, k)
             /\ Cardinality(written) = k * m
             /\ \A r \in 1..k :
                  Cardinality({j \in written :
                                 log[j].in_path = mn.raw_noise_wav_paths[r]}) = m
             /\ Cardinality(written) <= M
             /\ M - Cardinality(written) < k
             /\ Cardinality(DatFilesUnder(join(join(mn.FLAGS.output_data_path,
                                                    split_name(s)),
                                               BACKGROUND_NOISE_DIR))) = k * m

\* C28: after a run of main with --include_noise and k >= 1 noise
\* recordings, each split holds k * floor(M / k) noise examples, M being the
\* rounded mean over the words of the example counts returned for the
\* split: every recording contributes floor(M / k) examples, the total is at
\* most M and less than k short of it.
C28_NoiseExampleCount ==
  mn.pc = "returned" =>
    /\ Len(mn.raw_noise_wav_paths) >= 1
    /\ Len(mn.nums_train_examples) = Len(mn.words)
    /\ Len(mn.nums_test_examples) = Len(mn.words)
    /\ NoiseCountIs(0, mn.nums_train_examples)
    /\ NoiseCountIs(1, mn.nums_test_examples)

\* Two recordings and M = 3 for the train split: one example from each
\* recording, one short of M.
C28_Witness ==
  /\ mn.pc = "returned"
  /\ Len(mn.raw_noise_wav_paths) = 2
  /\ mn.nums_train_examples = <<3>>
  /\ Cardinality(NoiseEntries(D("train"))) = 2

(***************************************************************************)
(* Properties of runs of main after a failed run (specification SpecRerun). *)
(***************************************************************************)
\* The current run is a later run.
LaterRun == mn.pc # "idle" /\ "before" \in DOMAIN mn

\* A later run has changed nothing and converted nothing.
LaterRunChangesNothing ==
  /\ files = mn.before.files
  /\ dirs = mn.before.dirs
  /\ log = mn.before.log
  /\ cw.pc = "idle"
  /\ gn.pc = "idle"
  /\ mn.pc \in {"start", "after_words", "raised"}
  /\ Over => Failed

\* C26 as stated: once a run of main has created train/ and test/ and then
\* failed part-way, every later run with the same output_data_path fails
\* with 'train or test subdirectory already exists.' and changes nothing.
C26_LaterRunsFailOnExistingOutput ==
  LaterRun =>
    /\ LaterRunChangesNothing
    /\ Over => mn.res.err = "ValueError: train or test subdirectory already exists."

\* The later run passes the checks main makes before it looks for train/
\* and test/ (lines 257-274).
PassesEarlierChecks ==
  LET F == mn.FLAGS IN
  /\ F.input_wav_path \in dirs
  /\ F.words # None
  /\ ~has_duplicates(parse_words(F.words[1]))
  /\ \A k \in 1..Len(F.words[1]) :
       join(F.input_wav_path, D(strip(F.words[1][k]))) \in dirs
  /\ 0 < F.test_split[1] /\ F.test_split[1] < F.test_split[2]

\* C26 as amended: every later run with the same output_data_path fails
\* before converting any file and changes nothing; its error is 'train or
\* test subdirectory already exists.' when its arguments pass the checks
\* that come first, as those of the failed run do.
C26_LaterRunsFail ==
  LaterRun =>
    /\ LaterRunChangesNothing
    /\ mn.FLAGS.output_data_path = OutputDataPath
    /\ (Over /\ PassesEarlierChecks) =>
         mn.res.err = "ValueError: train or test subdirectory already exists."
    /\ (Over /\ ~PassesEarlierChecks) =>
         mn.res.err # "ValueError: train or test subdirectory already exists."

\* A run failed on a too short recording after it had converted a file;
\* the same command line, run again, failed on the existing directories.
C26_Witness ==
  /\ LaterRun
  /\ Failed
  /\ mn.res.err = "ValueError: train or test subdirectory already exists."
  /\ mn.before.log # <<>>
  /\ ~mn.before.log[Len(mn.before.log)].ok
  /\ \E k \in 1..Len(log) : log[k].ok /\ isfile(files, log[k].out_path)

(***************************************************************************)
(* Properties of generate_noise_examples (specification SpecNoise).        *)
(***************************************************************************)
\* W is ceil(a / b) for a >= 0 and b > 0, stated without division.
IsCeilOf(W, a, b) == (W - 1) * b < a /\ a <= W * b

\* The recording of the call and the length W of a window before
\* resampling is len: len = ceil(sample_length * fs / target_fs).
NoiseWav == files[gn.args.noise_wav_path]

WindowIs(len) ==
  IsCeilOf(len, gn.args.sample_length * NoiseWav.rate, gn.args.target_fs)

\* C19: a call of generate_noise_examples on an empty output directory that
\* returns has written exactly num_noise_examples different files, each of
\* exactly sample_length float samples, whatever the source rate, the
\* target rate and the offsets drawn; it returns whenever the recording is
\* longer than one window.
C19_NoiseExamplesWritten ==
  /\ gn.pc = "returned" =>
       /\ Cardinality(DatFilesUnder(gn.args.noise_out_dir))
            = gn.args.num_noise_examples
       /\ Cardinality({log[k].out_path : k \in 1..Len(log)})
            = gn.args.num_noise_examples
       /\ \A p \in DatFilesUnder(gn.args.noise_out_dir) :
            Len(files[p]) = 4 * gn.args.sample_length
  \* len > ceil(a / b) iff (len - 1) * b >= a
  /\ gn.pc = "raised" =>
       (Len(NoiseWav.data) - 1) * gn.args.target_fs
         < gn.args.sample_length * NoiseWav.rate

\* Two examples of 1 sample were cut at different offsets out of a
\* recording at 44100 Hz, for the target 16000 Hz, into one subfolder.
C19_Witness ==
  /\ gn.pc = "returned"
  /\ gn.args.num_noise_examples = 2
  /\ gn.args.recordings_per_subfolder = 2
  /\ gn.args.file_begin_index = 0
  /\ gn.args.sample_length = 1
  /\ NoiseWav.rate = 44100
  /\ gn.args.target_fs = 16000
  /\ gn.begin_indices[1] # gn.begin_indices[2]
  /\ Cardinality(FilesOfFolder(join(gn.args.noise_out_dir, D("0")))) = 2

\* C20: every start offset b drawn in generate_noise_examples satisfies
\* 0 <= b and b + W <= len(signal), for the window length
\* W = ceil(sample_length * fs / target_fs), so that every window cut has W
\* samples; and the offsets up to len(signal) - W can all be drawn: a
\* recording of exactly W samples is accepted, with offset 0.
C20_OffsetsAreValidRange ==
  gn.pc \notin {"idle", "entry"} =>
    /\ \A k \in 1..Len(gn.begin_indices) :
         /\ 0 <= gn.begin_indices[k]
         /\ gn.begin_indices[k] + gn.sample_length_0 <= Len(NoiseWav.data)
    /\ gn.pc # "raised" => WindowIs(gn.sample_length_0)
    /\ (ValidWav(NoiseWav) /\ WindowIs(Len(NoiseWav.data))
          /\ gn.args.num_noise_examples >= 1) =>
         /\ gn.pc # "raised"
         /\ \A k \in 1..Len(gn.begin_indices) : gn.begin_indices[k] = 0

\* What holds of the code: the offsets drawn are those with
\* b + W < len(signal), the last valid offset len(signal) - W is never
\* drawn, and the call raises when the recording is not longer than W.
C20_OffsetsBelowLast ==
  gn.pc \notin {"idle", "entry"} =>
    /\ \A k \in 1..Len(gn.begin_indices) :
         /\ 0 <= gn.begin_indices[k]
         /\ gn.begin_indices[k] + gn.sample_length_0 < Len(NoiseWav.data)
    /\ gn.pc # "raised" => WindowIs(gn.sample_length_0)
    /\ (WindowIs(Len(NoiseWav.data)) /\ gn.args.num_noise_examples >= 1) =>
         gn.pc = "raised" /\ gn.res.err = "ValueError: low >= high"

(***************************************************************************)
(* Properties of the pipeline functions (specification SpecUnit).          *)
(***************************************************************************)
Done(fn) == pc = "done" /\ call.fn = fn

\* The resampled signal the called function worked on.
Resampled == read_and_resample_as_floats(files[InWav], call.target_fs,
                                         scipyEmptyRaises)

\* C5: load_and_normalize_waveform returns the first floor(L/F)*F samples of
\* the resampled signal of length L (when floor(L/F) >= 1), and the whole
\* signal, unchanged, when L is a multiple of F.
C5_TruncatesToWholeFrames ==
  (Done("load_and_normalize_waveform") /\ Resampled.ok) =>
    LET L == Len(Resampled.val)
        F == call.frame_size
    IN  \A q \in 1..L :
          IsFloorOf(q, L, F) =>
            /\ result.ok
            /\ Len(result.val) = q * F
            /\ \A i \in 1..(q * F) : result.val[i] = Resampled.val[i]
            /\ (L = q * F => result.val = Resampled.val)

\* A non-constant signal of 3 samples was cut to its first frame of 2.
C5_Witness ==
  /\ Done("load_and_normalize_waveform")
  /\ result.ok
  /\ Resampled.ok
  /\ Len(Resampled.val) = 3
  /\ Len(result.val) = 2
  /\ Resampled.val[1] # Resampled.val[2]
  /\ Resampled.val[2] # Resampled.val[3]

\* C6: when the resampled signal is shorter than one frame,
\* load_and_normalize_waveform raises instead of returning an empty signal,
\* and convert leaves the file system as it was: no file is created or
\* modified at out_data_path.
C6_TooShortRaises ==
  LET wav == files[InWav] IN
  (pc = "done" /\ call.fn \in {"load_and_normalize_waveform", "convert"}
     /\ ValidWav(wav)
     /\ IsFloorOf(0, target_num_samples(Len(wav.data), call.target_fs, wav.rate),
                  call.frame_size)) =>
    /\ ~result.ok
    /\ call.fn = "convert" => files = call.before

\* convert raised on a too short signal and the file that was at
\* out_data_path is still there.
C6_Witness ==
  /\ Done("convert")
  /\ result.err = "ValueError: 0 samples"
  /\ OutDat \in DOMAIN files
  /\ files[OutDat] = OldDat

\* C18: read_as_floats maps every 16-bit sample s of a mono file to
\* s / 32768, a value in [-1, 1], and returns as many samples as the file
\* holds, in their order, with the sampling rate of the file.
C18_FloatsInUnitRange ==
  LET wav == files[InWav] IN
  (Done("read_as_floats") /\ ValidWav(wav)) =>
    /\ result.ok
    /\ result.val.fs = wav.rate
    /\ Len(result.val.signal) = Len(wav.data)
    /\ \A i \in 1..Len(wav.data) :
         LET v == result.val.signal[i] IN
         /\ v.den > 0
         /\ v.num * 32768 = wav.data[i] * v.den
         /\ -v.den <= v.num /\ v.num <= v.den

\* A file with both int16 extremes was read: -32768 became -1 exactly.
C18_Witness ==
  /\ Done("read_as_floats")
  /\ result.ok
  /\ Len(result.val.signal) = 3
  /\ files[InWav].data[1] = -32768
  /\ files[InWav].data[2] = 32767
  /\ result.val.signal[1].num = -result.val.signal[1].den

\* C7: read_and_resample_as_floats on N samples at rate R1 with target rate
\* R2 returns exactly floor(N * R2 / R1) samples; 100 samples at 22050 Hz
\* resampled to 44100 Hz give 200 samples.
C7_ResampledLength ==
  LET wav == files[InWav] IN
  Done("read_and_resample_as_floats") =>
    /\ result.ok =>
         IsFloorOf(Len(result.val), Len(wav.data) * call.target_fs, wav.rate)
    /\ (ValidWav(wav) /\ Len(wav.data) * call.target_fs >= wav.rate) => result.ok
    /\ (wav.data = TestSamples /\ wav.rate = 22050 /\ call.target_fs = 44100) =>
         result.ok /\ Len(result.val) = 200

\* 3 samples at 44100 Hz resampled to 16000 Hz: floor(48000 / 44100) = 1.
C7_Witness ==
  /\ Done("read_and_resample_as_floats")
  /\ result.ok
  /\ Len(files[InWav].data) = 3
  /\ files[InWav].rate = 44100
  /\ call.target_fs = 16000
  /\ Len(result.val) = 1

\* C8: convert returns n = floor(floor(N * target_fs / fs) / frame_size) *
\* frame_size, and the output file exists and is exactly 4 * n bytes long;
\* 100 samples, 22050 -> 44100 Hz, frame size 32 give n = 192 and 768 bytes.
\* (It returns whenever the wav file is mono 16-bit and n >= 1.)
C8_ConvertReturnsWrittenLength ==
  LET wav == files[InWav] IN
  Done("convert") =>
    \* floor(N * target_fs / fs) >= frame_size iff N * target_fs >= frame_size * fs
    /\ (/\ ValidWav(wav)
        /\ Len(wav.data) * call.target_fs >= call.frame_size * wav.rate) => result.ok
    /\ result.ok =>
         /\ \E L \in 0..(Len(wav.data) * call.target_fs) :
              /\ IsFloorOf(L, Len(wav.data) * call.target_fs, wav.rate)
              /\ \E q \in 1..L :
                   /\ IsFloorOf(q, L, call.frame_size)
                   /\ result.val = q * call.frame_size
         /\ OutDat \in DOMAIN files
         /\ Len(files[OutDat]) = 4 * result.val
    /\ (wav.data = TestSamples /\ wav.rate = 22050 /\ call.target_fs = 44100
          /\ call.frame_size = 32) =>
         result.val = 192 /\ Len(files[OutDat]) = 768

\* The conversion of prep_wavs_test.py's testConvert.
C8_Witness ==
  /\ Done("convert")
  /\ result.ok
  /\ files[InWav].data = TestSamples
  /\ files[InWav].rate = 22050
  /\ call.target_fs = 44100
  /\ call.frame_size = 32
  /\ result.val = 192

(***************************************************************************)
(* Properties of efficientnet_builder.py (specification SpecBuilder).      *)
(***************************************************************************)
BuilderDone ==
  /\ pc = "done"
  /\ call.fn \in {"get_model_params", "build_model", "build_model_base"}
  /\ call.images_is_tensor

\* C23: get_model_params, build_model and build_model_base raise
\* NotImplementedError for every model_name that is not one of the
\* predefined models efficientnet-b0 .. efficientnet-b7, also for an
\* undefined name that starts with 'efficientnet', such as efficientnet-b8.
C23_UndefinedModelNotImplemented ==
  (BuilderDone /\ call.model_name \notin DOMAIN params_dict)
    => result = Raise("NotImplementedError")

\* What the code does for an undefined name: NotImplementedError when the
\* name does not start with 'efficientnet', KeyError when it does; nothing
\* is written in either case.
C23_UndefinedModelRaises ==
  (BuilderDone /\ call.model_name \notin DOMAIN params_dict)
    => /\ result = IF startswith_efficientnet(call.model_name)
                     THEN Raise("KeyError") ELSE Raise("NotImplementedError")
       /\ files = call.before.files
       /\ dirs = call.before.dirs

(***************************************************************************)
(* Properties of archive_ckpt (specification SpecArchive).                 *)
(***************************************************************************)
ArchiveDone == pc = "done" /\ call.fn = "archive_ckpt"

\* The saved best objective the call found.
SavedBefore == saved_objective(call.before.files, ModelDir)

Untouched == files = call.before.files /\ dirs = call.before.dirs

\* C24: archive_ckpt archives a checkpoint (returns True, having replaced
\* the archive directory and rewritten best_objective.txt) only if its
\* objective is strictly greater than the saved best objective; otherwise
\* it returns False and leaves the archive and best_objective.txt
\* unchanged, so a checkpoint that ties the best does not replace the
\* archived one; and over a sequence of calls the saved best objective
\* never decreases.
C24_ArchivesOnlyIfBetter ==
  /\ ArchiveDone =>
       IF SavedBefore = None \/ call.ckpt_objective > SavedBefore[1]
         THEN TRUE
         ELSE result = Return(FALSE) /\ Untouched
  /\ \A k \in 2..Len(log) :
       log[k - 1].saved # None =>
         log[k].saved # None /\ log[k].saved[1] >= log[k - 1].saved[1]

\* What the code does: it refuses only a checkpoint whose objective is
\* less than the saved best, and the saved best never decreases.
C24_RefusesOnlyWorse ==
  /\ ArchiveDone =>
       IF greater(SavedBefore, call.ckpt_objective)
         THEN result = Return(FALSE) /\ Untouched
         ELSE result = Return(TRUE)
              /\ saved_objective(files, ModelDir)
                   = Some(float_of(format_f(call.ckpt_objective)))
  /\ \A k \in 2..Len(log) :
       log[k - 1].saved # None =>
         log[k].saved # None /\ log[k].saved[1] >= log[k - 1].saved[1]

\* C29: when no file matches ckpt_path + '.*', archive_ckpt returns False
\* and leaves the archive directory and best_objective.txt untouched, also
\* when ckpt_objective is at least the saved best.
C29_NothingToCopyReturnsFalse ==
  (ArchiveDone /\ Glob(call.before.files, call.ckpt_path) = {})
    => result = Return(FALSE) /\ Untouched

\* What the code does with nothing to copy and an objective that is not
\* worse: the archive is emptied of its checkpoint files and the saved
\* best is rewritten.
C29_NothingToCopyStillArchives ==
  (ArchiveDone /\ Glob(call.before.files, call.ckpt_path) = {}
     /\ ~greater(SavedBefore, call.ckpt_objective))
    => /\ result = Return(TRUE)
       /\ \A f \in DOMAIN files :
            Under(f, join(ModelDir, D("archive")))
              => basename(f) \in {<<"best_eval", ".txt">>, D("checkpoint")}

====
